---------------------------- MODULE Spec2Model ----------------------------
(***************************************************************************)
(* TaskFlow: the in-memory entity store (server/storage.ts), the task      *)
(* routes of the REST layer (server/routes.ts) that drive it, and the      *)
(* Slack ingestion path (server/services/slackService.ts).                 *)
(*                                                                         *)
(* Entities are functions from field names to values.  A field that an     *)
(* object does not carry (or carries as undefined) is outside the domain   *)
(* of the function.  JSON values are written as tokens: "null", "true",    *)
(* "false", decimal numerals for numbers, Date(...) for Date objects and   *)
(* any other string for itself.  Identifiers (the id field, the keys of    *)
(* the maps, the counters, taskId/userId of dependents) are integers.      *)
(***************************************************************************)
EXTENDS Integers, Sequences, FiniteSets, TLC

VARIABLES
    users,            \* MemStorage.users          : id -> User
    workspaces,       \* MemStorage.workspaces     : id -> Workspace
    tasks,            \* MemStorage.tasks          : id -> Task
    subtasks,         \* MemStorage.subtasks       : id -> Subtask
    comments,         \* MemStorage.comments       : id -> Comment
    notifications,    \* MemStorage.notifications  : id -> Notification
    nextId,           \* the six counters userId .. notificationId, by entity type
    issued,           \* by entity type, the identifiers handed out so far, in order
    slack,            \* SlackService: isConfigured, existingTasksByMessageId
    clock,            \* the value new Date() returns next
    res,              \* the request served last: what was asked and what was answered
    prev,             \* the request served before it
    served,           \* number of requests served
    req,              \* the task request in flight and the await it has reached
    email,            \* EmailService: isConfigured, existingTasksByMessageId, runs in flight
    scheduler,        \* SchedulerService: emailCheckInterval, isRunning, the timers set
    held              \* the array a caller holds from a list operation of the store

vars == <<users, workspaces, tasks, subtasks, comments, notifications,
          nextId, issued, slack, clock, res, prev, served, req, email, scheduler, held>>

\* The state outside the store, the Slack service and the request in flight.
outside == <<email, scheduler, held>>

pending == <<clock, res, prev, served, req, email, scheduler, held>>

(***************************************************************************)
(* Bounds of the exploration.                                              *)
(***************************************************************************)
MaxRequests == 2

\* The timer callbacks run.
MaxTicks == 2

(***************************************************************************)
(* JavaScript values.                                                      *)
(***************************************************************************)
Null == "null"

InvalidDate == "Invalid Date"

BoolToks == {"true", "false"}

\* The decimal numerals of 1, 2, ...; 0 is written "0".
Numerals == <<"1", "2", "3", "4", "5", "6", "7", "8", "9", "10", "11", "12", "13", "14",
              "15", "16", "17", "18", "19", "20", "21", "22", "23", "24">>

NumToks == {"0"} \cup {Numerals[i] : i \in DOMAIN Numerals}

\* A number as a JSON value, and back.
TokOf(n) == IF n = 0 THEN "0" ELSE Numerals[n]

NumOf(v) == IF v = "0" THEN 0 ELSE CHOOSE n \in DOMAIN Numerals : Numerals[n] = v

DateToks == {"Date(2023-09-10)", "Date(2023-09-15)", "Date(2023-09-18)",
             "Date(2023-09-20)", "Date(2023-09-23)", "Date(2023-09-25)",
             "Date(2023-09-30)", "Date(2023-10-01)", "Date(2023-10-02)",
             "Date(2023-10-05)", "Date(2023-10-12)", "Date(2023-09-01)",
             "Date(2023-11-01)",
             "Date(2023-11-15)", "Date(2023-11-30)", "Date(2023-12-20)",
             "Date(2024-01-15)", "Date(now)"}

JsType(v) ==
    CASE v = Null -> "null"
      [] v \in BoolToks -> "boolean"
      [] v \in NumToks -> "number"
      [] v \in DateToks \cup {InvalidDate} -> "date"
      [] OTHER -> "string"

\* JavaScript truthiness: null, "", 0 and false are falsy (undefined is a
\* missing field, tested by the caller); every object, Date included, is truthy.
Truthy(v) == v \notin {Null, "", "0", "false"}

\* new Date(v) for the strings the requests carry.
NewDate(v) ==
    CASE v = "2023-10-05" -> "Date(2023-10-05)"
      [] v = "2023-09-30" -> "Date(2023-09-30)"
      [] OTHER -> InvalidDate

\* Map<K, V> and optional results.
Undefined == <<>>

Some(x) == <<x>>

MapSet(m, k, v) == [x \in DOMAIN m \cup {k} |-> IF x = k THEN v ELSE m[x]]

MapDelete(m, k) == [x \in DOMAIN m \ {k} |-> m[x]]

\* { ...a, ...b }
Spread(a, b) == [f \in DOMAIN a \cup DOMAIN b |-> IF f \in DOMAIN b THEN b[f] ELSE a[f]]

Has(o, f) == f \in DOMAIN o

(***************************************************************************)
(* shared/schema.ts: the tasks table and insertTaskSchema.                 *)
(***************************************************************************)
TaskStatus == {"todo", "in_progress", "in_review", "completed"}

TaskPriority == {"low", "medium", "high"}

TaskType == {"sprint", "adhoc"}

\* TaskType.EPIC, the task type of an epic.
TaskTypeEpic == "epic"

InsertTaskFields == {"title", "description", "status", "priority", "assigneeId",
                     "workspaceId", "dueDate", "startDate", "completed", "position",
                     "taskType", "parentTaskId", "emailThreadId"}

\* notNull columns without a default are required; columns with a default or
\* nullable columns are optional.
RequiredTaskFields == {"title", "workspaceId"}

\* notNull columns do not accept null.
NotNullTaskFields == {"title", "workspaceId", "status", "priority"}

ColumnType(f) ==
    CASE f \in {"title", "description", "status", "priority", "taskType", "emailThreadId"} -> "string"
      [] f \in {"assigneeId", "workspaceId", "position", "parentTaskId"} -> "number"
      [] f \in {"dueDate", "startDate"} -> "date"
      [] f = "completed" -> "boolean"

\* The column defaults the table declares (applied by a database insert).
ColumnDefault == [status |-> "todo", priority |-> "medium", completed |-> "false",
                  position |-> "0", taskType |-> "adhoc"]

FieldAccepts(f, v) ==
    \/ v = Null /\ f \notin NotNullTaskFields
    \/ JsType(v) = ColumnType(f) /\ v # InvalidDate

\* Faulty variant: no field is required.
SchemaParse_AllOptional(data, partial) ==
    [ok   |-> \A f \in DOMAIN data \cap InsertTaskFields : FieldAccepts(f, data[f]),
     data |-> [f \in DOMAIN data \cap InsertTaskFields |-> data[f]]]

\* insertTaskSchema.parse(data) / insertTaskSchema.partial().parse(data):
\* ok is FALSE where parse throws a ZodError; data is the parsed value, which
\* keeps the schema's keys only and adds no defaults.
SchemaParse(data, partial) ==
    [ok   |-> /\ \A f \in DOMAIN data \cap InsertTaskFields : FieldAccepts(f, data[f])
              /\ partial \/ RequiredTaskFields \subseteq DOMAIN data,
     data |-> [f \in DOMAIN data \cap InsertTaskFields |-> data[f]]]


(***************************************************************************)
(* server/storage.ts: MemStorage.  A store value S holds the six maps, the *)
(* counters and the identifiers handed out; every method is a function of  *)
(* the store it runs on and returns the store it leaves, with its result   *)
(* in ret.                                                                 *)
(***************************************************************************)
EntityTypes == {"user", "workspace", "task", "subtask", "comment", "notification"}

Store == [users |-> users, workspaces |-> workspaces, tasks |-> tasks,
          subtasks |-> subtasks, comments |-> comments,
          notifications |-> notifications, nextId |-> nextId, issued |-> issued]

SetStore(S) ==
    /\ users' = S.users
    /\ workspaces' = S.workspaces
    /\ tasks' = S.tasks
    /\ subtasks' = S.subtasks
    /\ comments' = S.comments
    /\ notifications' = S.notifications
    /\ nextId' = S.nextId
    /\ issued' = S.issued

\* const id = this.<type>Id++, and the record that id was handed out.
TakeId(S, type, id) ==
    [S EXCEPT !.nextId[type] = @ + 1, !.issued[type] = Append(@, id)]

Ret(S, r) == [store |-> S, ret |-> r]

getTask(S, id) == IF id \in DOMAIN S.tasks THEN Some(S.tasks[id]) ELSE Undefined

getTasks(S, workspaceId) ==
    {id \in DOMAIN S.tasks :
        /\ Has(S.tasks[id], "workspaceId")
        /\ JsType(S.tasks[id].workspaceId) = "number"
        /\ NumOf(S.tasks[id].workspaceId) = workspaceId}

getSubtasks(S, taskId) == {id \in DOMAIN S.subtasks : S.subtasks[id].taskId = taskId}

getComments(S, taskId) == {id \in DOMAIN S.comments : S.comments[id].taskId = taskId}

createUser(S, insertUser) ==
    LET id == S.nextId.user
        user == Spread(insertUser, [id |-> id])
        S1 == TakeId(S, "user", id)
    IN  Ret([S1 EXCEPT !.users = MapSet(@, id, user)], user)

createWorkspace(S, insertWorkspace) ==
    LET id == S.nextId.workspace
        workspace == Spread(insertWorkspace, [id |-> id])
        S1 == TakeId(S, "workspace", id)
    IN  Ret([S1 EXCEPT !.workspaces = MapSet(@, id, workspace)], workspace)

updateWorkspace(S, id, workspace) ==
    IF id \notin DOMAIN S.workspaces THEN Ret(S, Undefined)
    ELSE LET updated == Spread(S.workspaces[id], workspace)
         IN  Ret([S EXCEPT !.workspaces = MapSet(@, id, updated)], Some(updated))

deleteWorkspace(S, id) ==
    Ret([S EXCEPT !.workspaces = MapDelete(@, id)], id \in DOMAIN S.workspaces)

\* Faulty variant: the identifier is taken from the size of the map.
createTask_CountId(S, insertTask) ==
    LET id == Cardinality(DOMAIN S.tasks) + 1
        task == Spread(insertTask, [id |-> id])
        S1 == TakeId(S, "task", id)
    IN  Ret([S1 EXCEPT !.tasks = MapSet(@, id, task)], task)

createTask(S, insertTask) ==
    LET id == S.nextId.task
        task == Spread(insertTask, [id |-> id])
        S1 == TakeId(S, "task", id)
    IN  Ret([S1 EXCEPT !.tasks = MapSet(@, id, task)], task)

\* Faulty variant: an unknown id is stored as a new task.
updateTask_Upsert(S, id, taskUpdate) ==
    LET existing == IF id \in DOMAIN S.tasks THEN S.tasks[id] ELSE [id |-> id]
        updated == Spread(existing, taskUpdate)
    IN  Ret([S EXCEPT !.tasks = MapSet(@, id, updated)], Some(updated))

\* Faulty variant: every update moves the task one position down.
updateTask_BumpPosition(S, id, taskUpdate) ==
    IF id \notin DOMAIN S.tasks THEN Ret(S, Undefined)
    ELSE LET merged == Spread(S.tasks[id], taskUpdate)
             updated == [merged EXCEPT !.position = TokOf(NumOf(@) + 1)]
         IN  Ret([S EXCEPT !.tasks = MapSet(@, id, updated)], Some(updated))

\* Faulty variant: the update replaces the task instead of merging into it.
updateTask_Replace(S, id, taskUpdate) ==
    IF id \notin DOMAIN S.tasks THEN Ret(S, Undefined)
    ELSE LET updated == Spread(taskUpdate, [id |-> id])
         IN  Ret([S EXCEPT !.tasks = MapSet(@, id, updated)], Some(updated))

updateTask(S, id, taskUpdate) ==
    IF id \notin DOMAIN S.tasks THEN Ret(S, Undefined)
    ELSE LET updated == Spread(S.tasks[id], taskUpdate)
         IN  Ret([S EXCEPT !.tasks = MapSet(@, id, updated)], Some(updated))

\* Faulty variant: the updated task is returned but not stored.
updateTaskStatus_NoStore(S, id, status) ==
    IF id \notin DOMAIN S.tasks THEN Ret(S, Undefined)
    ELSE Ret(S, Some(Spread(S.tasks[id], [status |-> status])))

\* Faulty variant: the completed flag follows the status.
updateTaskStatus_SyncCompleted(S, id, status) ==
    IF id \notin DOMAIN S.tasks THEN Ret(S, Undefined)
    ELSE LET updated == Spread(S.tasks[id],
                               [status |-> status,
                                completed |-> IF status = "completed" THEN "true" ELSE "false"])
         IN  Ret([S EXCEPT !.tasks = MapSet(@, id, updated)], Some(updated))

\* Faulty variant: a completed task keeps its status.
updateTaskStatus_CompletedIsFinal(S, id, status) ==
    IF id \notin DOMAIN S.tasks THEN Ret(S, Undefined)
    ELSE IF Has(S.tasks[id], "status") /\ S.tasks[id].status = "completed"
    THEN Ret(S, Some(S.tasks[id]))
    ELSE LET updated == Spread(S.tasks[id], [status |-> status])
         IN  Ret([S EXCEPT !.tasks = MapSet(@, id, updated)], Some(updated))

updateTaskStatus(S, id, status) ==
    IF id \notin DOMAIN S.tasks THEN Ret(S, Undefined)
    ELSE LET updated == Spread(S.tasks[id], [status |-> status])
         IN  Ret([S EXCEPT !.tasks = MapSet(@, id, updated)], Some(updated))

\* Faulty variant: the cascade forgets the comments.
deleteTask_KeepComments(S, id) ==
    LET subs == [x \in DOMAIN S.subtasks \ getSubtasks(S, id) |-> S.subtasks[x]]
    IN  Ret([S EXCEPT !.subtasks = subs, !.tasks = MapDelete(@, id)],
            id \in DOMAIN S.tasks)

\* Faulty variant: the cascade also removes the notifications about the task.
deleteTask_CascadeNotifications(S, id) ==
    LET subs == [x \in DOMAIN S.subtasks \ getSubtasks(S, id) |-> S.subtasks[x]]
        coms == [x \in DOMAIN S.comments \ getComments(S, id) |-> S.comments[x]]
        nots == [x \in {n \in DOMAIN S.notifications :
                            ~(Has(S.notifications[n], "taskId")
                              /\ S.notifications[n].taskId = id)}
                    |-> S.notifications[x]]
    IN  Ret([S EXCEPT !.subtasks = subs, !.comments = coms, !.notifications = nots,
                      !.tasks = MapDelete(@, id)],
            id \in DOMAIN S.tasks)

\* Faulty variant: the dependents are removed now and the task itself is left
\* for a later turn.
deleteTask_TaskLater(S, id) ==
    LET subs == [x \in DOMAIN S.subtasks \ getSubtasks(S, id) |-> S.subtasks[x]]
        coms == [x \in DOMAIN S.comments \ getComments(S, id) |-> S.comments[x]]
    IN  Ret([S EXCEPT !.subtasks = subs, !.comments = coms], id \in DOMAIN S.tasks)

deleteTask(S, id) ==
    LET subs == [x \in DOMAIN S.subtasks \ getSubtasks(S, id) |-> S.subtasks[x]]
        coms == [x \in DOMAIN S.comments \ getComments(S, id) |-> S.comments[x]]
    IN  Ret([S EXCEPT !.subtasks = subs, !.comments = coms, !.tasks = MapDelete(@, id)],
            id \in DOMAIN S.tasks)

createSubtask(S, insertSubtask) ==
    LET id == S.nextId.subtask
        subtask == Spread(insertSubtask, [id |-> id])
        S1 == TakeId(S, "subtask", id)
    IN  Ret([S1 EXCEPT !.subtasks = MapSet(@, id, subtask)], subtask)

deleteSubtask(S, id) ==
    Ret([S EXCEPT !.subtasks = MapDelete(@, id)], id \in DOMAIN S.subtasks)

createComment(S, insertComment, now) ==
    LET id == S.nextId.comment
        comment == Spread(insertComment, [id |-> id, createdAt |-> now])
        S1 == TakeId(S, "comment", id)
    IN  Ret([S1 EXCEPT !.comments = MapSet(@, id, comment)], comment)

deleteComment(S, id) ==
    Ret([S EXCEPT !.comments = MapDelete(@, id)], id \in DOMAIN S.comments)

createNotification(S, insertNotification, now) ==
    LET id == S.nextId.notification
        notification == Spread(insertNotification,
                               [id |-> id, isRead |-> FALSE, createdAt |-> now])
        S1 == TakeId(S, "notification", id)
    IN  Ret([S1 EXCEPT !.notifications = MapSet(@, id, notification)], notification)

getUnreadNotifications(S, userId) ==
    {id \in DOMAIN S.notifications :
        S.notifications[id].userId = userId /\ ~S.notifications[id].isRead}

\* Faulty variant: marking a notification that is read makes it unread.
markNotificationAsRead_Toggle(S, id) ==
    IF id \notin DOMAIN S.notifications THEN Ret(S, Undefined)
    ELSE LET updated == [S.notifications[id] EXCEPT !.isRead = ~@]
         IN  Ret([S EXCEPT !.notifications = MapSet(@, id, updated)], Some(updated))

markNotificationAsRead(S, id) ==
    IF id \notin DOMAIN S.notifications THEN Ret(S, Undefined)
    ELSE LET updated == Spread(S.notifications[id], [isRead |-> TRUE])
         IN  Ret([S EXCEPT !.notifications = MapSet(@, id, updated)], Some(updated))

(***************************************************************************)
(* MemStorage.constructor and initSampleData.                              *)
(***************************************************************************)
SampleUsers ==
    (1 :> [id |-> 1, username |-> "alex", password |-> "password",
           displayName |-> "Alex Morgan", role |-> "admin"]) @@
    (2 :> [id |-> 2, username |-> "sarah", password |-> "password",
           displayName |-> "Sarah Chen", role |-> "user"]) @@
    (3 :> [id |-> 3, username |-> "marcus", password |-> "password",
           displayName |-> "Marcus Kim", role |-> "user"]) @@
    (4 :> [id |-> 4, username |-> "jessica", password |-> "password",
           displayName |-> "Jessica Lee", role |-> "user"])

SampleWorkspaces ==
    (1 :> [id |-> 1, name |-> "Main Project", description |-> "Primary project workspace"])

SampleTask(id, title, status, priority, assigneeId, dueDate, startDate, completed, position) ==
    [id |-> id, title |-> title, description |-> "sample description", status |-> status,
     priority |-> priority, assigneeId |-> assigneeId, workspaceId |-> "1",
     dueDate |-> dueDate, startDate |-> startDate, completed |-> completed,
     position |-> position]

SampleTasks ==
    (1 :> SampleTask(1, "Website redesign", "in_progress", "high", "2",
                     "Date(2023-09-23)", "Date(2023-09-15)", "false", "1")) @@
    (2 :> SampleTask(2, "Create user onboarding flow", "todo", "medium", "1",
                     "Date(2023-10-05)", "Date(2023-09-25)", "false", "1")) @@
    (3 :> SampleTask(3, "API documentation", "completed", "low", "3",
                     "Date(2023-09-18)", "Date(2023-09-10)", "true", "1")) @@
    (4 :> SampleTask(4, "Performance optimization", "in_progress", "high", "4",
                     "Date(2023-09-30)", "Date(2023-09-20)", "false", "2")) @@
    (5 :> SampleTask(5, "Customer feedback survey", "todo", "low", "2",
                     "Date(2023-10-12)", "Date(2023-10-01)", "false", "2")) @@
    (6 :> SampleTask(6, "Mobile app navigation", "in_review", "medium", "3",
                     "Date(2023-10-02)", "Date(2023-09-25)", "false", "1"))

SampleSubtasks ==
    (1 :> [id |-> 1, taskId |-> 1, title |-> "Create wireframes", completed |-> TRUE]) @@
    (2 :> [id |-> 2, taskId |-> 1, title |-> "Implement new navigation", completed |-> FALSE]) @@
    (3 :> [id |-> 3, taskId |-> 1, title |-> "Update hero section", completed |-> FALSE]) @@
    (4 :> [id |-> 4, taskId |-> 1, title |-> "Test responsive design", completed |-> FALSE]) @@
    (5 :> [id |-> 5, taskId |-> 3, title |-> "Document authentication endpoints", completed |-> TRUE]) @@
    (6 :> [id |-> 6, taskId |-> 3, title |-> "Create API examples", completed |-> TRUE])

SampleComments ==
    (1 :> [id |-> 1, taskId |-> 1, userId |-> 3, content |-> "reviewed the wireframes",
           createdAt |-> -2]) @@
    (2 :> [id |-> 2, taskId |-> 1, userId |-> 2, content |-> "adjustments today",
           createdAt |-> -1])

\* The identifiers 1 .. n, in the order initSampleData takes them.
Ids(n) == [i \in 1..n |-> i]

\* No task request is in flight.
Idle == [stage |-> "idle"]

\* The store the constructor leaves.
SampleStore ==
    [users |-> SampleUsers, workspaces |-> SampleWorkspaces, tasks |-> SampleTasks,
     subtasks |-> SampleSubtasks, comments |-> SampleComments, notifications |-> <<>>,
     nextId |-> [user |-> Cardinality(DOMAIN SampleUsers) + 1,
                 workspace |-> Cardinality(DOMAIN SampleWorkspaces) + 1,
                 task |-> Cardinality(DOMAIN SampleTasks) + 1,
                 subtask |-> Cardinality(DOMAIN SampleSubtasks) + 1,
                 comment |-> Cardinality(DOMAIN SampleComments) + 1,
                 notification |-> 1],
     issued |-> [user |-> Ids(Cardinality(DOMAIN SampleUsers)),
                 workspace |-> Ids(Cardinality(DOMAIN SampleWorkspaces)),
                 task |-> Ids(Cardinality(DOMAIN SampleTasks)),
                 subtask |-> Ids(Cardinality(DOMAIN SampleSubtasks)),
                 comment |-> Ids(Cardinality(DOMAIN SampleComments)),
                 notification |-> <<>>]]

\* The store is S.
StoreIs(S) ==
    /\ users = S.users
    /\ workspaces = S.workspaces
    /\ tasks = S.tasks
    /\ subtasks = S.subtasks
    /\ comments = S.comments
    /\ notifications = S.notifications
    /\ nextId = S.nextId
    /\ issued = S.issued

\* new SlackService(): configured where the environment names a bot token and
\* a channel (the sample data holds no Slack task to load); no check is
\* awaiting its fetch and no loop is running.  fetching counts the calls of
\* processMessages that await their fetch, and overlapped says that a fetch
\* has returned while another call was awaiting its own.
SlackServiceInit(configured) ==
    [isConfigured |-> configured, existingTasksByMessageId |-> <<>>,
     run |-> [active |-> FALSE], fetching |-> 0, overlapped |-> FALSE]

\* new EmailService(): configured where the environment names an address and a
\* password.  runs counts the calls of processEmails that have not returned,
\* by who made them, and loop is the loop of the one whose fetch has returned;
\* settled counts the calls that have returned and last describes the one that
\* returned last.
EmailServiceInit(configured) ==
    [isConfigured |-> configured, existingTasksByMessageId |-> <<>>,
     runs |-> [scheduler |-> 0, manual |-> 0], loop |-> [active |-> FALSE],
     settled |-> 0, last |-> [origin |-> "none"]]

\* new SchedulerService(): emailCheckInterval is the handle of the timer (0 for
\* null), timers the handles setInterval has given out and clearInterval has
\* not taken back; ticks counts the timer callbacks run and last tells what the
\* last call of processEmails did.
SchedulerServiceInit ==
    [emailCheckInterval |-> 0, isRunning |-> FALSE, timers |-> {}, nextTimer |-> 1,
     ticks |-> 0, last |-> "none"]

Init ==
    /\ StoreIs(SampleStore)
    /\ slack = SlackServiceInit(FALSE)
    /\ clock = 0
    /\ res = [op |-> "init"]
    /\ prev = [op |-> "init"]
    /\ served = 0
    /\ req = Idle
    /\ email = EmailServiceInit(FALSE)
    /\ scheduler = SchedulerServiceInit
    /\ held = Undefined

(***************************************************************************)
(* server/routes.ts: the task routes.  notifyFails says whether the call   *)
(* of storage.createNotification made by the request throws; MemStorage's  *)
(* never does, another IStorage may.  A call that throws writes nothing.   *)
(***************************************************************************)
DateFields == {"startDate", "dueDate"}

\* { ...req.body, startDate: req.body.startDate ? new Date(..) : undefined, dueDate: .. }
PostTaskData(body) ==
    [f \in (DOMAIN body \ DateFields)
           \cup {d \in DateFields \cap DOMAIN body : Truthy(body[d])}
        |-> IF f \in DateFields THEN NewDate(body[f]) ELSE body[f]]

\* try { await storage.createNotification(n) } catch { console.error(..) }
TryCreateNotification(S, n, now, notifyFails) ==
    IF notifyFails THEN S ELSE createNotification(S, n, now).store

\* No loop of a Slack check or of an email run is running and no task request
\* is in flight: such a loop awaits only the in-memory store, so no other
\* handler or timer runs within it.
Quiet == ~slack.run.active /\ ~email.loop.active /\ req = Idle

\* A request is served between the loops.
CanServe == served < MaxRequests /\ Quiet

\* The response r is sent.
Answer(r) ==
    /\ res' = r
    /\ prev' = res
    /\ served' = served + 1
    /\ clock' = clock + 1

\* The response of a handler that runs from its start to its response in one
\* step.
Respond(r) ==
    /\ Answer(r)
    /\ UNCHANGED <<req, outside>>

PostTask(body, notifyFails) ==
    /\ CanServe
    /\ LET parsed == SchemaParse(PostTaskData(body), FALSE)
           made == createTask(Store, parsed.data)
           task == made.ret
           notification == [title |-> "New Task Created", taskId |-> task.id, userId |-> 1,
                            type |-> "task_created", isRead |-> FALSE, createdAt |-> clock]
       IN  IF ~parsed.ok
           THEN /\ SetStore(Store)
                /\ Respond([op |-> "POST /tasks", body |-> body, code |-> 400])
           ELSE /\ SetStore(TryCreateNotification(made.store, notification, clock, notifyFails))
                /\ Respond([op |-> "POST /tasks", body |-> body, code |-> 201,
                            task |-> task, notifyFails |-> notifyFails])
    /\ UNCHANGED slack

SignificantFields == {"status", "priority", "assigneeId", "dueDate", "taskType"}

\* The fields the update notification lists.
significantFields(taskUpdateData) ==
    {f \in SignificantFields : Has(taskUpdateData, f) /\ Truthy(taskUpdateData[f])}

PatchTask(id, body, notifyFails) ==
    /\ CanServe
    /\ LET parsed == SchemaParse(body, TRUE)
           done == updateTask(Store, id, parsed.data)
           task == done.ret[1]
           notification == [title |-> "Task Updated", taskId |-> task.id, userId |-> 1,
                            type |-> "task_updated", isRead |-> FALSE, createdAt |-> clock]
       IN  IF ~parsed.ok
           THEN /\ SetStore(Store)
                /\ Respond([op |-> "PATCH /tasks/:id", id |-> id, body |-> body, code |-> 400])
           ELSE IF done.ret = Undefined
           THEN /\ SetStore(done.store)
                /\ Respond([op |-> "PATCH /tasks/:id", id |-> id, body |-> body, code |-> 404])
           ELSE /\ SetStore(IF significantFields(parsed.data) # {}
                            THEN TryCreateNotification(done.store, notification, clock, notifyFails)
                            ELSE done.store)
                /\ Respond([op |-> "PATCH /tasks/:id", id |-> id, body |-> body, code |-> 200,
                            task |-> task, notifyFails |-> notifyFails])
    /\ UNCHANGED slack

\* Faulty variant: the notification goes to the assignee of the task.
PatchTaskStatus_NotifyAssignee(id, body, notifyFails) ==
    /\ CanServe
    /\ LET done == updateTaskStatus(Store, id, body.status)
           task == done.ret[1]
           notification == [title |-> "Task Status Changed", taskId |-> task.id,
                            userId |-> IF Has(task, "assigneeId") /\ Truthy(task.assigneeId)
                                       THEN NumOf(task.assigneeId) ELSE 1,
                            type |-> "task_status_changed", isRead |-> FALSE,
                            createdAt |-> clock]
       IN  IF ~(Has(body, "status") /\ Truthy(body.status))
           THEN /\ SetStore(Store)
                /\ Respond([op |-> "PATCH /tasks/:id/status", id |-> id, body |-> body,
                            code |-> 400])
           ELSE IF done.ret = Undefined
           THEN /\ SetStore(done.store)
                /\ Respond([op |-> "PATCH /tasks/:id/status", id |-> id, body |-> body,
                            code |-> 404])
           ELSE /\ SetStore(TryCreateNotification(done.store, notification, clock, notifyFails))
                /\ Respond([op |-> "PATCH /tasks/:id/status", id |-> id, body |-> body,
                            code |-> 200, task |-> task, notifyFails |-> notifyFails])
    /\ UNCHANGED slack

PatchTaskStatus(id, body, notifyFails) ==
    /\ CanServe
    /\ LET done == updateTaskStatus(Store, id, body.status)
           task == done.ret[1]
           notification == [title |-> "Task Status Changed", taskId |-> task.id, userId |-> 1,
                            type |-> "task_status_changed", isRead |-> FALSE,
                            createdAt |-> clock]
       IN  IF ~(Has(body, "status") /\ Truthy(body.status))
           THEN /\ SetStore(Store)
                /\ Respond([op |-> "PATCH /tasks/:id/status", id |-> id, body |-> body,
                            code |-> 400])
           ELSE IF done.ret = Undefined
           THEN /\ SetStore(done.store)
                /\ Respond([op |-> "PATCH /tasks/:id/status", id |-> id, body |-> body,
                            code |-> 404])
           ELSE /\ SetStore(TryCreateNotification(done.store, notification, clock, notifyFails))
                /\ Respond([op |-> "PATCH /tasks/:id/status", id |-> id, body |-> body,
                            code |-> 200, task |-> task, notifyFails |-> notifyFails])
    /\ UNCHANGED slack

DeleteTaskRoute(id) ==
    /\ CanServe
    /\ LET done == deleteTask(Store, id)
       IN  /\ SetStore(done.store)
           /\ Respond([op |-> "DELETE /tasks/:id", id |-> id, success |-> done.ret,
                       code |-> IF done.ret THEN 204 ELSE 404])
    /\ UNCHANGED slack

(***************************************************************************)
(* The handlers of POST /tasks, PATCH /tasks/:id and PATCH /tasks/:id/status *)
(* one await at a time: up to the return of the store's task method, then   *)
(* the notification, then the response.  req holds the handler's locals.    *)
(***************************************************************************)
TaskOps == {"POST /tasks", "PATCH /tasks/:id", "PATCH /tasks/:id/status"}

\* The handler of op from its start to the return of createTask, updateTask or
\* updateTaskStatus: the answer's code, the store left, the task returned,
\* whether a notification follows and its type.  id is the :id parameter (POST
\* /tasks has none).
TaskMutation(op, id, body) ==
    CASE op = "POST /tasks" ->
            LET parsed == SchemaParse(PostTaskData(body), FALSE)
                made == createTask(Store, parsed.data)
            IN  IF ~parsed.ok THEN [code |-> 400]
                ELSE [code |-> 201, store |-> made.store, task |-> made.ret,
                      notify |-> TRUE, title |-> "New Task Created", type |-> "task_created"]
      [] op = "PATCH /tasks/:id" ->
            LET parsed == SchemaParse(body, TRUE)
                done == updateTask(Store, id, parsed.data)
            IN  IF ~parsed.ok THEN [code |-> 400]
                ELSE IF done.ret = Undefined THEN [code |-> 404]
                ELSE [code |-> 200, store |-> done.store, task |-> done.ret[1],
                      notify |-> significantFields(parsed.data) # {},
                      title |-> "Task Updated", type |-> "task_updated"]
      [] op = "PATCH /tasks/:id/status" ->
            LET done == updateTaskStatus(Store, id, body.status)
            IN  IF ~(Has(body, "status") /\ Truthy(body.status)) THEN [code |-> 400]
                ELSE IF done.ret = Undefined THEN [code |-> 404]
                ELSE [code |-> 200, store |-> done.store, task |-> done.ret[1],
                      notify |-> TRUE, title |-> "Task Status Changed",
                      type |-> "task_status_changed"]

\* The handler starts and runs to its first response (400, 404) or to the
\* return of the store's task method.
TaskMutate(op, id, body) ==
    /\ CanServe
    /\ LET out == TaskMutation(op, id, body)
       IN  IF out.code \in {400, 404}
           THEN /\ SetStore(Store)
                /\ Respond([op |-> op, id |-> id, body |-> body, code |-> out.code])
           ELSE /\ SetStore(out.store)
                /\ req' = [stage |-> "mutated", op |-> op, id |-> id, body |-> body,
                           code |-> out.code, task |-> out.task, notify |-> out.notify,
                           title |-> out.title, type |-> out.type]
                /\ UNCHANGED <<clock, res, prev, served, outside>>
    /\ UNCHANGED slack

\* try { await storage.createNotification(notification) } catch { .. }
TaskNotify(notifyFails) ==
    /\ req.stage = "mutated"
    /\ req.notify
    /\ LET notification == [title |-> req.title, taskId |-> req.task.id, userId |-> 1,
                            type |-> req.type, isRead |-> FALSE, createdAt |-> clock]
       IN  SetStore(TryCreateNotification(Store, notification, clock, notifyFails))
    /\ req' = [req EXCEPT !.stage = "notified"]
    /\ UNCHANGED <<clock, res, prev, served, slack, outside>>

\* Faulty variant: the response does not wait for the notification.
CanRespond_Early == req.stage \in {"mutated", "notified"}

\* The handler has reached res.status(..).json(task).
CanRespond ==
    \/ req.stage = "notified"
    \/ req.stage = "mutated" /\ ~req.notify

TaskRespond ==
    /\ CanRespond
    /\ SetStore(Store)
    /\ Answer([op |-> req.op, id |-> req.id, body |-> req.body, code |-> req.code,
               task |-> req.task])
    /\ req' = Idle
    /\ UNCHANGED <<slack, outside>>

(***************************************************************************)
(* server/routes.ts: the subtask and comment routes.  The bodies carry     *)
(* values of the right type, so parse fails on a missing required field.   *)
(***************************************************************************)
\* createInsertSchema(..).pick(..).parse(body) for subtasks and comments.
PickParse(body, fields, required) ==
    [ok |-> required \subseteq DOMAIN body,
     data |-> [f \in DOMAIN body \cap fields |-> body[f]]]

PostSubtask(body) ==
    /\ CanServe
    /\ LET parsed == PickParse(body, {"taskId", "title", "completed"}, {"taskId", "title"})
           made == createSubtask(Store, parsed.data)
       IN  IF ~parsed.ok
           THEN /\ SetStore(Store)
                /\ Respond([op |-> "POST /subtasks", body |-> body, code |-> 400])
           ELSE /\ SetStore(made.store)
                /\ Respond([op |-> "POST /subtasks", body |-> body, code |-> 201,
                            subtask |-> made.ret])
    /\ UNCHANGED slack

DeleteSubtaskRoute(id) ==
    /\ CanServe
    /\ LET done == deleteSubtask(Store, id)
       IN  /\ SetStore(done.store)
           /\ Respond([op |-> "DELETE /subtasks/:id", id |-> id, success |-> done.ret,
                       code |-> IF done.ret THEN 204 ELSE 404])
    /\ UNCHANGED slack

PostComment(body) ==
    /\ CanServe
    /\ LET parsed == PickParse(body, {"taskId", "userId", "content"},
                               {"taskId", "userId", "content"})
           made == createComment(Store, parsed.data, clock)
       IN  IF ~parsed.ok
           THEN /\ SetStore(Store)
                /\ Respond([op |-> "POST /comments", body |-> body, code |-> 400])
           ELSE /\ SetStore(made.store)
                /\ Respond([op |-> "POST /comments", body |-> body, code |-> 201,
                            comment |-> made.ret])
    /\ UNCHANGED slack

DeleteCommentRoute(id) ==
    /\ CanServe
    /\ LET done == deleteComment(Store, id)
       IN  /\ SetStore(done.store)
           /\ Respond([op |-> "DELETE /comments/:id", id |-> id, success |-> done.ret,
                       code |-> IF done.ret THEN 204 ELSE 404])
    /\ UNCHANGED slack

(***************************************************************************)
(* Calls of the store's user and workspace methods (no route reaches      *)
(* them).                                                                  *)
(***************************************************************************)
CreateUser(insertUser) ==
    /\ CanServe
    /\ LET made == createUser(Store, insertUser)
       IN  /\ SetStore(made.store)
           /\ Respond([op |-> "createUser", data |-> insertUser, user |-> made.ret])
    /\ UNCHANGED slack

CreateWorkspace(insertWorkspace) ==
    /\ CanServe
    /\ LET made == createWorkspace(Store, insertWorkspace)
       IN  /\ SetStore(made.store)
           /\ Respond([op |-> "createWorkspace", data |-> insertWorkspace,
                       workspace |-> made.ret])
    /\ UNCHANGED slack

UpdateWorkspace(id, workspace) ==
    /\ CanServe
    /\ LET done == updateWorkspace(Store, id, workspace)
       IN  /\ SetStore(done.store)
           /\ Respond([op |-> "updateWorkspace", id |-> id, data |-> workspace,
                       ret |-> done.ret])
    /\ UNCHANGED slack

DeleteWorkspace(id) ==
    /\ CanServe
    /\ LET done == deleteWorkspace(Store, id)
       IN  /\ SetStore(done.store)
           /\ Respond([op |-> "deleteWorkspace", id |-> id, success |-> done.ret])
    /\ UNCHANGED slack

(***************************************************************************)
(* server/routes.ts: the epic routes.                                      *)
(***************************************************************************)
\* parseInt of a decimal numeral; any other string gives NaN.
ParseInt(v) == IF v \in NumToks THEN v ELSE "NaN"

EpicData(workspaceId) ==
    << [title |-> "Product Launch Campaign", description |-> "marketing campaign",
        status |-> "in_progress", priority |-> "high", assigneeId |-> "1",
        workspaceId |-> workspaceId, dueDate |-> "Date(2023-11-15)",
        startDate |-> "Date(2023-09-01)", taskType |-> TaskTypeEpic],
       [title |-> "Website Revamp Project", description |-> "redesign of the website",
        status |-> "todo", priority |-> "high", assigneeId |-> "2",
        workspaceId |-> workspaceId, dueDate |-> "Date(2023-12-20)",
        startDate |-> "Date(2023-10-01)", taskType |-> TaskTypeEpic],
       [title |-> "Q4 Client Onboarding Improvements", description |-> "client onboarding",
        status |-> "in_review", priority |-> "medium", assigneeId |-> "3",
        workspaceId |-> workspaceId, dueDate |-> "Date(2023-11-30)",
        startDate |-> "Date(2023-09-15)", taskType |-> TaskTypeEpic],
       [title |-> "Mobile App Enhancement", description |-> "mobile application",
        status |-> "todo", priority |-> "low", assigneeId |-> "1",
        workspaceId |-> workspaceId, dueDate |-> "Date(2024-01-15)",
        startDate |-> "Date(2023-11-01)", taskType |-> TaskTypeEpic] >>

\* POST /sample-epics: the four epics are created one after the other.
PostSampleEpics(body) ==
    /\ CanServe
    /\ LET workspaceId == ParseInt(IF Has(body, "workspaceId") /\ Truthy(body.workspaceId)
                                   THEN body.workspaceId ELSE "1")
           epicData == EpicData(workspaceId)
           S1 == createTask(Store, epicData[1]).store
           S2 == createTask(S1, epicData[2]).store
           S3 == createTask(S2, epicData[3]).store
           S4 == createTask(S3, epicData[4]).store
       IN  /\ SetStore(S4)
           /\ Respond([op |-> "POST /sample-epics", body |-> body, code |-> 200,
                       epics |-> DOMAIN S4.tasks \ DOMAIN tasks])
    /\ UNCHANGED slack

\* POST /epics/:epicId/generate-documentation.  The notification is written
\* within the handler's try block: where createNotification throws, the route
\* answers 500.
GenerateEpicDocumentation(epicId, notifyFails) ==
    /\ CanServe
    /\ LET epic == getTask(Store, epicId)
           notification == [title |-> "Epic Documentation Generated", taskId |-> epicId,
                            userId |-> 1, type |-> "epic_documentation", isRead |-> FALSE,
                            createdAt |-> clock]
           op == "POST /epics/:epicId/generate-documentation"
       IN  IF epic = Undefined
           THEN /\ SetStore(Store)
                /\ Respond([op |-> op, epicId |-> epicId, code |-> 404])
           ELSE IF ~(Has(epic[1], "taskType") /\ epic[1].taskType = TaskTypeEpic)
           THEN /\ SetStore(Store)
                /\ Respond([op |-> op, epicId |-> epicId, code |-> 400])
           ELSE IF notifyFails
           THEN /\ SetStore(Store)
                /\ Respond([op |-> op, epicId |-> epicId, code |-> 500])
           ELSE /\ SetStore(createNotification(Store, notification, clock).store)
                /\ Respond([op |-> op, epicId |-> epicId, code |-> 200])
    /\ UNCHANGED slack

(***************************************************************************)
(* server/routes.ts: the notification routes, and a call of               *)
(* storage.createNotification by a caller other than the routes.           *)
(***************************************************************************)
MarkNotificationAsReadRoute(id) ==
    /\ CanServe
    /\ LET done == markNotificationAsRead(Store, id)
       IN  /\ SetStore(done.store)
           /\ Respond([op |-> "PATCH /notifications/:id/read", id |-> id,
                       code |-> IF done.ret = Undefined THEN 404 ELSE 200])
    /\ UNCHANGED slack

\* Every unread notification of the user is marked; each call of
\* markNotificationAsRead writes its own entry of the map only.
MarkAllNotificationsRead(userId) ==
    /\ CanServe
    /\ LET unread == getUnreadNotifications(Store, userId)
           marked == [n \in DOMAIN notifications |->
                         IF n \in unread THEN markNotificationAsRead(Store, n).ret[1]
                         ELSE notifications[n]]
       IN  /\ SetStore([Store EXCEPT !.notifications = marked])
           /\ Respond([op |-> "PATCH /notifications/mark-all-read/:userId",
                       userId |-> userId, marked |-> unread, code |-> 200])
    /\ UNCHANGED slack

CreateNotification(insertNotification) ==
    /\ CanServe
    /\ LET made == createNotification(Store, insertNotification, clock)
       IN  /\ SetStore(made.store)
           /\ Respond([op |-> "createNotification", data |-> insertNotification,
                       notification |-> made.ret])
    /\ UNCHANGED slack

(***************************************************************************)
(* server/services/slackService.ts.  A message is a function with ts and,  *)
(* where the message has them, text, thread_ts and bot_id; its text is a   *)
(* single line of at most 100 characters, so the title is the text.        *)
(***************************************************************************)
TaskSourceSlack == "slack"

\* The entry of existingTasksByMessageId whose slackMessageId is ts, if any.
FindBySlackId(byMessageId, ts) ==
    LET hits == {k \in DOMAIN byMessageId :
                    /\ Has(byMessageId[k], "slackMessageId")
                    /\ byMessageId[k].slackMessageId = ts}
    IN  IF hits = {} THEN Undefined ELSE Some(byMessageId[CHOOSE k \in hits : TRUE])

\* SlackService.loadExistingTasks: the map rebuilt from the tasks of workspace 1.
loadExistingTasks(S) ==
    LET ids == {id \in getTasks(S, 1) :
                   /\ Has(S.tasks[id], "source") /\ S.tasks[id].source = TaskSourceSlack
                   /\ Has(S.tasks[id], "slackMessageId")
                   /\ Truthy(S.tasks[id].slackMessageId)}
        keys == {S.tasks[id].slackMessageId : id \in ids}
    IN  [k \in keys |->
            S.tasks[CHOOSE id \in ids :
                       /\ S.tasks[id].slackMessageId = k
                       /\ \A other \in ids :
                             S.tasks[other].slackMessageId = k => other <= id]]

\* SlackService.parseMessage: Undefined stands for the null it returns.
parseMessage(byMessageId, message) ==
    IF ~(Has(message, "text") /\ Truthy(message.text)) THEN Undefined
    ELSE LET taskData == [title |-> message.text, description |-> message.text,
                          status |-> "todo", priority |-> "medium", taskType |-> "adhoc",
                          source |-> TaskSourceSlack, slackMessageId |-> message.ts,
                          workspaceId |-> "1"]
             parentTask == FindBySlackId(byMessageId, message.thread_ts)
         IN  IF /\ Has(message, "thread_ts") /\ Truthy(message.thread_ts)
                /\ message.thread_ts # message.ts
                /\ parentTask # Undefined
             THEN Some(Spread(taskData, [parentTaskId |-> TokOf(parentTask[1].id),
                                         title |-> "Reply: " \o taskData.title]))
             ELSE Some(taskData)

\* SlackService.checkForDuplicateTask: the first task of the workspace, in the
\* map's insertion order, that did not come from Slack and has the same title.
checkForDuplicateTask(S, taskData) ==
    LET hits == {id \in getTasks(S, NumOf(taskData.workspaceId)) :
                    /\ ~(Has(S.tasks[id], "source") /\ S.tasks[id].source = TaskSourceSlack)
                    /\ Has(S.tasks[id], "title") /\ S.tasks[id].title = taskData.title}
    IN  IF hits = {} THEN Undefined
        ELSE Some(S.tasks[CHOOSE id \in hits : \A other \in hits : id <= other])

\* Faulty variant: a message is not looked up in existingTasksByMessageId.
createTaskFromMessage_NoSkip(S, byMessageId, message, notifyFails, now) ==
    LET parsed == parseMessage(byMessageId, message)
        taskData == parsed[1]
        duplicate == checkForDuplicateTask(S, taskData)
        duplicateTaskData ==
            [title |-> taskData.title, description |-> "Duplicate of existing task",
             status |-> "completed", priority |-> taskData.priority,
             workspaceId |-> taskData.workspaceId, completed |-> "true", position |-> "0",
             taskType |-> taskData.taskType, source |-> TaskSourceSlack,
             slackMessageId |-> taskData.slackMessageId]
        newTask ==
            Spread([title |-> taskData.title, description |-> taskData.description,
                    status |-> taskData.status, priority |-> taskData.priority,
                    workspaceId |-> taskData.workspaceId, completed |-> "false",
                    position |-> "0", taskType |-> taskData.taskType,
                    source |-> TaskSourceSlack, slackMessageId |-> taskData.slackMessageId],
                   [f \in {"parentTaskId"} \cap DOMAIN taskData |-> taskData[f]])
        made == createTask(S, IF duplicate # Undefined THEN duplicateTaskData ELSE newTask)
        task == made.ret
        notification ==
            IF duplicate # Undefined
            THEN [title |-> "Duplicate Task Detected", userId |-> 1, taskId |-> task.id,
                  type |-> "task_duplicate"]
            ELSE [title |-> "New Slack Task", userId |-> 1, taskId |-> task.id,
                  type |-> "task_created_slack"]
    IN  IF parsed = Undefined
        THEN [store |-> S, byMessageId |-> byMessageId, task |-> Undefined,
              isDuplicate |-> FALSE, threw |-> FALSE, wrote |-> {}]
        ELSE IF notifyFails
        THEN [store |-> made.store, byMessageId |-> byMessageId, task |-> Undefined,
              isDuplicate |-> FALSE, threw |-> TRUE, wrote |-> {task.id}]
        ELSE [store |-> createNotification(made.store, notification, now).store,
              byMessageId |-> IF Truthy(task.slackMessageId)
                              THEN MapSet(byMessageId, task.slackMessageId, task)
                              ELSE byMessageId,
              task |-> Some(task), isDuplicate |-> duplicate # Undefined,
              threw |-> FALSE, wrote |-> {task.id}]

\* SlackService.createTaskFromMessage, called on a configured service.  threw
\* says that the call ended by an exception (of createNotification).
createTaskFromMessage(S, byMessageId, message, notifyFails, now) ==
    LET parsed == parseMessage(byMessageId, message)
        taskData == parsed[1]
        duplicate == checkForDuplicateTask(S, taskData)
        duplicateTaskData ==
            [title |-> taskData.title, description |-> "Duplicate of existing task",
             status |-> "completed", priority |-> taskData.priority,
             workspaceId |-> taskData.workspaceId, completed |-> "true", position |-> "0",
             taskType |-> taskData.taskType, source |-> TaskSourceSlack,
             slackMessageId |-> taskData.slackMessageId]
        newTask ==
            Spread([title |-> taskData.title, description |-> taskData.description,
                    status |-> taskData.status, priority |-> taskData.priority,
                    workspaceId |-> taskData.workspaceId, completed |-> "false",
                    position |-> "0", taskType |-> taskData.taskType,
                    source |-> TaskSourceSlack, slackMessageId |-> taskData.slackMessageId],
                   [f \in {"parentTaskId"} \cap DOMAIN taskData |-> taskData[f]])
        made == createTask(S, IF duplicate # Undefined THEN duplicateTaskData ELSE newTask)
        task == made.ret
        notification ==
            IF duplicate # Undefined
            THEN [title |-> "Duplicate Task Detected", userId |-> 1, taskId |-> task.id,
                  type |-> "task_duplicate"]
            ELSE [title |-> "New Slack Task", userId |-> 1, taskId |-> task.id,
                  type |-> "task_created_slack"]
    IN  IF Truthy(message.ts) /\ message.ts \in DOMAIN byMessageId
        THEN [store |-> S, byMessageId |-> byMessageId, task |-> Some(byMessageId[message.ts]),
              isDuplicate |-> FALSE, threw |-> FALSE, wrote |-> {}]
        ELSE IF parsed = Undefined
        THEN [store |-> S, byMessageId |-> byMessageId, task |-> Undefined,
              isDuplicate |-> FALSE, threw |-> FALSE, wrote |-> {}]
        ELSE IF notifyFails
        THEN [store |-> made.store, byMessageId |-> byMessageId, task |-> Undefined,
              isDuplicate |-> FALSE, threw |-> TRUE, wrote |-> {task.id}]
        ELSE [store |-> createNotification(made.store, notification, now).store,
              byMessageId |-> IF Truthy(task.slackMessageId)
                              THEN MapSet(byMessageId, task.slackMessageId, task)
                              ELSE byMessageId,
              task |-> Some(task), isDuplicate |-> duplicate # Undefined,
              threw |-> FALSE, wrote |-> {task.id}]

\* POST /slack/configure with both fields given; ok is the answer of the
\* connection test (conversations.info).
SlackConfigure(ok) ==
    /\ CanServe
    /\ slack' = IF ok
                THEN [slack EXCEPT !.isConfigured = TRUE,
                                   !.existingTasksByMessageId = loadExistingTasks(Store)]
                ELSE [slack EXCEPT !.isConfigured = FALSE]
    /\ SetStore(Store)
    /\ Respond([op |-> "POST /slack/configure", ok |-> ok, code |-> 200])

NoRun == [active |-> FALSE]

\* POST /slack/check up to the loop of SlackService.processMessages; messages
\* is the channel history the fetch returns.
SlackCheck(messages) ==
    /\ CanServe
    /\ SetStore(Store)
    /\ IF ~slack.isConfigured
       THEN /\ UNCHANGED slack
            /\ Respond([op |-> "POST /slack/check", messages |-> messages, code |-> 400])
       ELSE /\ slack' = [slack EXCEPT !.run = [active |-> TRUE, messages |-> messages,
                                               i |-> 1, tasksCreated |-> 0,
                                               duplicatesDetected |-> 0, wrote |-> {}]]
            /\ UNCHANGED pending

\* One turn of the loop of processMessages.  An exception leaves the loop and
\* the route answers 500.
SlackProcessMessage(notifyFails) ==
    /\ slack.run.active
    /\ slack.run.i <= Len(slack.run.messages)
    /\ LET run == slack.run
           message == run.messages[run.i]
           r == createTaskFromMessage(Store, slack.existingTasksByMessageId, message,
                                      notifyFails, clock)
       IN  IF Has(message, "subtype") \/ Has(message, "bot_id")
           THEN /\ SetStore(Store)
                /\ slack' = [slack EXCEPT !.run.i = @ + 1]
                /\ UNCHANGED pending
           ELSE IF r.threw
           THEN /\ SetStore(r.store)
                /\ slack' = [slack EXCEPT !.run = NoRun]
                /\ Respond([op |-> "POST /slack/check", messages |-> run.messages,
                            code |-> 500, wrote |-> run.wrote \cup r.wrote,
                            notifyFailed |-> TRUE])
           ELSE /\ SetStore(r.store)
                /\ slack' = [slack EXCEPT
                       !.existingTasksByMessageId = r.byMessageId,
                       !.run.i = @ + 1,
                       !.run.wrote = @ \cup r.wrote,
                       !.run.tasksCreated =
                           @ + (IF r.task # Undefined /\ ~r.isDuplicate THEN 1 ELSE 0),
                       !.run.duplicatesDetected =
                           @ + (IF r.task # Undefined /\ r.isDuplicate THEN 1 ELSE 0)]
                /\ UNCHANGED pending

\* The loop is over: processMessages returns and the route answers.
SlackCheckDone ==
    /\ slack.run.active
    /\ slack.run.i > Len(slack.run.messages)
    /\ SetStore(Store)
    /\ slack' = [slack EXCEPT !.run = NoRun]
    /\ Respond([op |-> "POST /slack/check", messages |-> slack.run.messages, code |-> 200,
                wrote |-> slack.run.wrote, notifyFailed |-> FALSE,
                tasksCreated |-> slack.run.tasksCreated,
                duplicatesDetected |-> slack.run.duplicatesDetected])

\* POST /slack/check up to the await of fetchChannelMessages: other handlers
\* run until the fetch returns.
SlackCheckFetch ==
    /\ CanServe
    /\ served + slack.fetching < MaxRequests
    /\ SetStore(Store)
    /\ IF ~slack.isConfigured
       THEN /\ UNCHANGED slack
            /\ Respond([op |-> "POST /slack/check", code |-> 400])
       ELSE /\ slack' = [slack EXCEPT !.fetching = @ + 1]
            /\ UNCHANGED pending

\* The message of messages at which createTaskFromMessage is first called.
FirstTaken(messages) ==
    {i \in DOMAIN messages :
        /\ ~(Has(messages[i], "subtype") \/ Has(messages[i], "bot_id"))
        /\ \A j \in 1..(i - 1) : Has(messages[j], "subtype") \/ Has(messages[j], "bot_id")}

\* The fetch of a call of processMessages returns the channel history, or
\* throws.  On a service that a failed POST /slack/configure has marked as not
\* configured meanwhile, createTaskFromMessage throws at its first call.
SlackFetchReturns(outcome) ==
    /\ slack.fetching > 0
    /\ Quiet
    /\ SetStore(Store)
    /\ LET rest == [slack EXCEPT !.fetching = @ - 1,
                                 !.overlapped = @ \/ slack.fetching > 1]
           op == "POST /slack/check"
       IN  IF ~outcome.ok
           THEN /\ slack' = rest
                /\ Respond([op |-> op, code |-> 500])
           ELSE IF slack.isConfigured
           THEN /\ slack' = [rest EXCEPT !.run = [active |-> TRUE,
                                                  messages |-> outcome.messages,
                                                  i |-> 1, tasksCreated |-> 0,
                                                  duplicatesDetected |-> 0, wrote |-> {}]]
                /\ UNCHANGED pending
           ELSE /\ slack' = rest
                /\ Respond([op |-> op, messages |-> outcome.messages,
                            code |-> IF FirstTaken(outcome.messages) # {} THEN 500 ELSE 200,
                            wrote |-> {}, notifyFailed |-> FALSE,
                            tasksCreated |-> 0, duplicatesDetected |-> 0])

(***************************************************************************)
(* server/services/emailService.ts: EmailService.  A mail is a function    *)
(* with subject, text (the lines of the body), size (the length of the     *)
(* body) and, where the mail has the header, messageId.  What a pattern    *)
(* finds in a line, and the lower case of a name, are tabulated for the    *)
(* lines and the names the mails and the users carry.                      *)
(***************************************************************************)
\* The value of new Date(), as a token.
DateNow == "Date(now)"

\* What the patterns of parseEmail capture in a line: deadline for
\* /Deadline:\s*([^\n]+)/i, due for /Due(?: Date)?:\s*([^\n]+)/i, priority for
\* the three priority patterns (lower case, before urgent and important are
\* mapped), assignee for /Assignee:\s*([^\n]+)/i (trimmed), wording for the
\* task-like words.  No line holds "by", the third pattern of the deadline.
LineMatches(line) ==
    CASE line = "Deadline: 2023-09-30" -> [deadline |-> "2023-09-30"]
      [] line = "Due: tomorrow" -> [due |-> "tomorrow"]
      [] line = "This is urgent" -> [priority |-> "urgent"]
      [] line = "Assignee: sarah chen" -> [assignee |-> "sarah chen"]
      [] line = "Please fix the login page" -> [wording |-> "please"]
      [] OTHER -> <<>>

\* body.match(pattern): the capture in the first line that has one.
FirstMatch(text, pattern) ==
    LET hits == {i \in DOMAIN text : Has(LineMatches(text[i]), pattern)}
    IN  IF hits = {} THEN Undefined
        ELSE Some(LineMatches(text[CHOOSE i \in hits : \A j \in hits : i <= j])[pattern])

\* /(urgent|asap|immediately|deadline|due|important)/i.test(subject)
UrgentSubject(subject) == subject \in {"Urgent: server down"}

\* /action|task|follow up|update|review|check|complete/i.test(subject)
ActionSubject(subject) == subject \in {"Review the login flow"}

\* The body as one string (a mail has two lines at most).
JoinLines(text) ==
    IF Len(text) = 0 THEN ""
    ELSE IF Len(text) = 1 THEN text[1]
    ELSE text[1] \o "\n" \o text[2]

\* String.prototype.toLowerCase.
ToLowerCase(s) ==
    CASE s = "Alex Morgan" -> "alex morgan"
      [] s = "Sarah Chen" -> "sarah chen"
      [] s = "Marcus Kim" -> "marcus kim"
      [] s = "Jessica Lee" -> "jessica lee"
      [] s = "New User" -> "new user"
      [] OTHER -> s

\* EmailService.parseEmail: Undefined stands for the null it returns.  The
\* team it reads is used nowhere.
parseEmail(mail) ==
    LET emailBody == IF Has(mail, "text") THEN mail.text ELSE <<>>
        subject == IF Has(mail, "subject") /\ Truthy(mail.subject)
                   THEN mail.subject ELSE "No Subject"
        messageId == IF Has(mail, "messageId") THEN mail.messageId ELSE ""
        assigneeMatch == FirstMatch(emailBody, "assignee")
        deadlineMatch == IF FirstMatch(emailBody, "deadline") # Undefined
                         THEN FirstMatch(emailBody, "deadline")
                         ELSE FirstMatch(emailBody, "due")
        deadlineDate == NewDate(deadlineMatch[1])
        priorityMatch == FirstMatch(emailBody, "priority")
        found == IF priorityMatch = Undefined THEN Undefined
                 ELSE IF priorityMatch[1] \in {"urgent", "important"} THEN Some("high")
                 ELSE priorityMatch
        priority == IF found = Undefined /\ UrgentSubject(subject) THEN Some("high")
                    ELSE found
        hasDeadline == deadlineMatch # Undefined /\ deadlineDate # InvalidDate
        parsedData ==
            Spread(Spread(Spread([subject |-> subject, body |-> JoinLines(emailBody),
                                  workspaceId |-> "1", messageId |-> messageId],
                                 IF assigneeMatch = Undefined THEN <<>>
                                 ELSE [assignee |-> assigneeMatch[1]]),
                          IF hasDeadline THEN [deadline |-> deadlineDate] ELSE <<>>),
                   IF priority = Undefined THEN <<>> ELSE [priority |-> priority[1]])
        isLikelyTask == mail.size < 1000 \/ ActionSubject(subject)
    IN  IF isLikelyTask THEN Some(parsedData)
        ELSE IF (priority # Undefined /\ priority[1] = "high") \/ hasDeadline
        THEN Some(parsedData)
        ELSE IF FirstMatch(emailBody, "wording") # Undefined THEN Some(parsedData)
        ELSE Undefined

\* users.find(user => user.displayName.toLowerCase() === name.toLowerCase()):
\* the first user, in the order of the map, of that name.
FindUserByName(S, name) ==
    LET hits == {id \in DOMAIN S.users :
                    ToLowerCase(S.users[id].displayName) = ToLowerCase(name)}
    IN  IF hits = {} THEN Undefined
        ELSE Some(S.users[CHOOSE id \in hits : \A other \in hits : id <= other])

\* Faulty variant: the mail is not looked up and always makes a new task.
createOrUpdateTaskFromEmail_AlwaysNew(S, byMessageId, parsedData) ==
    LET found == IF Has(parsedData, "assignee")
                 THEN FindUserByName(S, parsedData.assignee) ELSE Undefined
        newTask == [title |-> parsedData.subject, description |-> parsedData.body,
                    status |-> "todo",
                    priority |-> IF Has(parsedData, "priority")
                                    /\ parsedData.priority \in TaskPriority
                                 THEN parsedData.priority ELSE "medium",
                    assigneeId |-> IF found = Undefined THEN Null ELSE TokOf(found[1].id),
                    workspaceId |-> parsedData.workspaceId,
                    dueDate |-> IF Has(parsedData, "deadline") THEN parsedData.deadline
                                ELSE Null,
                    startDate |-> DateNow, completed |-> "false"]
        made == createTask(S, newTask)
    IN  [store |-> made.store,
         byMessageId |-> IF Truthy(parsedData.messageId)
                         THEN MapSet(byMessageId, parsedData.messageId, made.ret)
                         ELSE byMessageId,
         task |-> Some(made.ret), isNew |-> TRUE]

\* EmailService.createOrUpdateTaskFromEmail.  The tasks the map of the service
\* holds are the objects createTask returned: they carry a dueDate, and no
\* later change of the store reaches them, the store replacing the object of a
\* task at every update.
createOrUpdateTaskFromEmail(S, byMessageId, parsedData) ==
    LET existingTask == IF Truthy(parsedData.messageId)
                           /\ parsedData.messageId \in DOMAIN byMessageId
                        THEN Some(byMessageId[parsedData.messageId]) ELSE Undefined
        found == IF Has(parsedData, "assignee")
                 THEN FindUserByName(S, parsedData.assignee) ELSE Undefined
        assigneeId == IF found = Undefined THEN Null ELSE TokOf(found[1].id)
        priority == IF Has(parsedData, "priority") /\ parsedData.priority \in TaskPriority
                    THEN parsedData.priority ELSE "medium"
        done == updateTask(S, existingTask[1].id,
                           [title |-> parsedData.subject,
                            description |-> parsedData.body \o "\n\n(Updated from email)",
                            priority |-> priority, assigneeId |-> assigneeId,
                            dueDate |-> IF Has(parsedData, "deadline")
                                        THEN parsedData.deadline
                                        ELSE existingTask[1].dueDate])
        newTask == [title |-> parsedData.subject, description |-> parsedData.body,
                    status |-> "todo", priority |-> priority, assigneeId |-> assigneeId,
                    workspaceId |-> parsedData.workspaceId,
                    dueDate |-> IF Has(parsedData, "deadline") THEN parsedData.deadline
                                ELSE Null,
                    startDate |-> DateNow, completed |-> "false"]
        made == createTask(S, newTask)
    IN  IF existingTask # Undefined
        THEN [store |-> done.store, byMessageId |-> byMessageId, task |-> done.ret,
              isNew |-> FALSE]
        ELSE [store |-> made.store,
              byMessageId |-> IF Truthy(parsedData.messageId)
                              THEN MapSet(byMessageId, parsedData.messageId, made.ret)
                              ELSE byMessageId,
              task |-> Some(made.ret), isNew |-> TRUE]

(***************************************************************************)
(* server/services/schedulerService.ts: SchedulerService, and the email    *)
(* routes of server/routes.ts.  A call of EmailService.processEmails       *)
(* awaits the IMAP fetch; other handlers and timers run meanwhile.         *)
(***************************************************************************)
\* Faulty variant: isRunning is set back on success only.
SchedulerRunDone_NoFinally(sch, failed) ==
    IF failed THEN sch ELSE [sch EXCEPT !.isRunning = FALSE]

\* The end of SchedulerService.processEmails: finally { this.isRunning = false }.
SchedulerRunDone(sch, failed) == [sch EXCEPT !.isRunning = FALSE]

\* Faulty variant: a run is started whether or not one is in progress.
SchedulerProcessEmails_NoGuard(sch, em) ==
    IF ~em.isConfigured
    THEN [scheduler |-> [SchedulerRunDone([sch EXCEPT !.isRunning = TRUE], TRUE)
                            EXCEPT !.last = "failed"],
          email |-> em]
    ELSE [scheduler |-> [sch EXCEPT !.isRunning = TRUE, !.last = "started"],
          email |-> [em EXCEPT !.runs.scheduler = @ + 1]]

\* SchedulerService.processEmails up to its await.  On a service that is not
\* configured emailService.processEmails throws at once, and the call is over.
SchedulerProcessEmails(sch, em) ==
    IF sch.isRunning
    THEN [scheduler |-> [sch EXCEPT !.last = "skipped"], email |-> em]
    ELSE IF ~em.isConfigured
    THEN [scheduler |-> [SchedulerRunDone([sch EXCEPT !.isRunning = TRUE], TRUE)
                            EXCEPT !.last = "failed"],
          email |-> em]
    ELSE [scheduler |-> [sch EXCEPT !.isRunning = TRUE, !.last = "started"],
          email |-> [em EXCEPT !.runs.scheduler = @ + 1]]

\* Faulty variant: a timer is installed whether or not one is active.
startEmailChecker_Reinstall(sch, em) ==
    LET run == SchedulerProcessEmails(sch, em)
    IN  IF ~em.isConfigured THEN [scheduler |-> sch, email |-> em, threw |-> TRUE]
        ELSE [scheduler |-> [run.scheduler EXCEPT !.emailCheckInterval = sch.nextTimer,
                                                  !.timers = @ \cup {sch.nextTimer},
                                                  !.nextTimer = @ + 1],
              email |-> run.email, threw |-> FALSE]

\* SchedulerService.startEmailChecker.
startEmailChecker(sch, em) ==
    LET run == SchedulerProcessEmails(sch, em)
    IN  IF sch.emailCheckInterval # 0
        THEN [scheduler |-> sch, email |-> em, threw |-> FALSE]
        ELSE IF ~em.isConfigured THEN [scheduler |-> sch, email |-> em, threw |-> TRUE]
        ELSE [scheduler |-> [run.scheduler EXCEPT !.emailCheckInterval = sch.nextTimer,
                                                  !.timers = @ \cup {sch.nextTimer},
                                                  !.nextTimer = @ + 1],
              email |-> run.email, threw |-> FALSE]

\* SchedulerService.stopEmailChecker.
stopEmailChecker(sch) ==
    IF sch.emailCheckInterval # 0
    THEN [sch EXCEPT !.timers = @ \ {sch.emailCheckInterval}, !.emailCheckInterval = 0]
    ELSE sch

isSchedulerRunning(sch) == sch.emailCheckInterval # 0

\* A request of the email routes is taken: no loop over the in-memory store is
\* running, and the requests answered and awaiting an answer are fewer than
\* the bound.
CanAccept == CanServe /\ served + email.runs.manual < MaxRequests

\* POST /email/configure with address and password; ok is the outcome of the
\* connection test.
EmailConfigure(ok) ==
    /\ CanAccept
    /\ email' = [email EXCEPT !.isConfigured = ok]
    /\ SetStore(Store)
    /\ Answer([op |-> "POST /email/configure", ok |-> ok,
               code |-> IF ok THEN 200 ELSE 400])
    /\ UNCHANGED <<req, slack, scheduler, held>>

\* POST /email/check up to the await of fetchUnreadEmails.
EmailCheck ==
    /\ CanAccept
    /\ SetStore(Store)
    /\ IF ~email.isConfigured
       THEN /\ Answer([op |-> "POST /email/check", code |-> 400])
            /\ UNCHANGED <<req, slack, outside>>
       ELSE /\ email' = [email EXCEPT !.runs.manual = @ + 1]
            /\ UNCHANGED <<clock, res, prev, served, req, slack, scheduler, held>>

\* POST /email/scheduler/start.  called says that the route reached
\* startEmailChecker, had that a timer was active then.
SchedulerStart ==
    /\ CanAccept
    /\ SetStore(Store)
    /\ LET r == startEmailChecker(scheduler, email)
           op == "POST /email/scheduler/start"
       IN  IF ~email.isConfigured
           THEN /\ Answer([op |-> op, code |-> 400, called |-> FALSE])
                /\ UNCHANGED <<req, slack, outside>>
           ELSE /\ scheduler' = r.scheduler
                /\ email' = r.email
                /\ Answer([op |-> op, code |-> IF r.threw THEN 500 ELSE 200,
                           called |-> TRUE, had |-> isSchedulerRunning(scheduler)])
                /\ UNCHANGED <<req, slack, held>>

\* POST /email/scheduler/stop.
SchedulerStop ==
    /\ CanAccept
    /\ SetStore(Store)
    /\ scheduler' = stopEmailChecker(scheduler)
    /\ Answer([op |-> "POST /email/scheduler/stop", code |-> 200,
               had |-> isSchedulerRunning(scheduler)])
    /\ UNCHANGED <<req, slack, email, held>>

\* The callback of the timer t: this.processEmails().
TimerTick(t) ==
    /\ t \in scheduler.timers
    /\ scheduler.ticks < MaxTicks
    /\ Quiet
    /\ LET r == SchedulerProcessEmails(scheduler, email)
       IN  /\ scheduler' = [r.scheduler EXCEPT !.ticks = @ + 1]
           /\ email' = r.email
    /\ SetStore(Store)
    /\ UNCHANGED <<clock, res, prev, served, req, slack, held>>

\* The fetch of a call of EmailService.processEmails made by origin settles:
\* it returns mails and the loop over them starts, or it fails, with an error
\* that marks the service as not configured where critical is true.  A call
\* made by the scheduler ends in the scheduler, one made by POST /email/check
\* in the answer of the route.
EmailFetchSettles(origin, outcome) ==
    /\ email.runs[origin] > 0
    /\ Quiet
    /\ SetStore(Store)
    /\ IF outcome.ok
       THEN /\ email' = [email EXCEPT
                   !.loop = [active |-> TRUE, origin |-> origin, emails |-> outcome.emails,
                             i |-> 1, tasksCreated |-> 0, tasksUpdated |-> 0,
                             results |-> <<>>]]
            /\ UNCHANGED <<clock, res, prev, served, scheduler>>
       ELSE /\ email' = [email EXCEPT
                   !.runs[origin] = @ - 1,
                   !.isConfigured = @ /\ ~outcome.critical,
                   !.settled = @ + 1,
                   !.last = [origin |-> origin, failed |-> TRUE, results |-> <<>>]]
            /\ IF origin = "scheduler"
               THEN /\ scheduler' = SchedulerRunDone(scheduler, TRUE)
                    /\ UNCHANGED <<clock, res, prev, served>>
               ELSE /\ UNCHANGED scheduler
                    /\ Answer([op |-> "POST /email/check", code |-> 500])
    /\ UNCHANGED <<req, slack, held>>

\* One turn of the loop of EmailService.processEmails.  The loop awaits the
\* in-memory store only, so it runs to its end before any other handler or
\* timer runs.  results notes, for each mail that parses, its messageId,
\* whether it names a deadline, the task the map held for it (cached), that task
\* as the store held it (before), and what createOrUpdateTaskFromEmail
\* returned.
EmailProcessMail ==
    /\ email.loop.active
    /\ email.loop.i <= Len(email.loop.emails)
    /\ \E parsed \in {parseEmail(email.loop.emails[email.loop.i])} :
          IF parsed = Undefined
          THEN /\ SetStore(Store)
               /\ email' = [email EXCEPT !.loop.i = @ + 1]
          ELSE \E parsedData \in {parsed[1]} :
               \E r \in {createOrUpdateTaskFromEmail(Store, email.existingTasksByMessageId,
                                                     parsedData)} :
                  LET byMessageId == email.existingTasksByMessageId
                      cached == IF Truthy(parsedData.messageId)
                                   /\ parsedData.messageId \in DOMAIN byMessageId
                                THEN Some(byMessageId[parsedData.messageId])
                                ELSE Undefined
                      note == [messageId |-> parsedData.messageId,
                               hasDeadline |-> Has(parsedData, "deadline"),
                               cached |-> cached,
                               before |-> IF cached = Undefined THEN Undefined
                                          ELSE getTask(Store, cached[1].id),
                               task |-> r.task, isNew |-> r.isNew]
                  IN  /\ SetStore(r.store)
                      /\ email' = [email EXCEPT
                             !.existingTasksByMessageId = r.byMessageId,
                             !.loop.i = @ + 1,
                             !.loop.tasksCreated =
                                 @ + (IF r.task # Undefined /\ r.isNew THEN 1 ELSE 0),
                             !.loop.tasksUpdated =
                                 @ + (IF r.task # Undefined /\ ~r.isNew THEN 1 ELSE 0),
                             !.loop.results = Append(@, note)]
    /\ UNCHANGED <<clock, res, prev, served, req, slack, scheduler, held>>

\* The loop is over: EmailService.processEmails returns.
EmailRunDone ==
    /\ email.loop.active
    /\ email.loop.i > Len(email.loop.emails)
    /\ SetStore(Store)
    /\ LET loop == email.loop
       IN  /\ email' = [email EXCEPT
                  !.runs[loop.origin] = @ - 1,
                  !.loop = NoRun,
                  !.settled = @ + 1,
                  !.last = [origin |-> loop.origin, failed |-> FALSE,
                            results |-> loop.results]]
           /\ IF loop.origin = "scheduler"
              THEN /\ scheduler' = SchedulerRunDone(scheduler, FALSE)
                   /\ UNCHANGED <<clock, res, prev, served>>
              ELSE /\ UNCHANGED scheduler
                   /\ Answer([op |-> "POST /email/check", code |-> 200,
                              tasksCreated |-> loop.tasksCreated,
                              tasksUpdated |-> loop.tasksUpdated])
    /\ UNCHANGED <<req, slack, held>>

(***************************************************************************)
(* server/storage.ts: the list operations, as a caller sees them.  Each    *)
(* returns Array.from(map.values()).filter(..): a new array whose entries  *)
(* are the objects the map holds.  A returned array is written as the map  *)
(* and the keys of its entries, in the order of the array.                 *)
(***************************************************************************)
\* The identifiers of ids in the order of the map (the order of creation).
ListOf(ids) ==
    [i \in 1..Cardinality(ids) |->
        CHOOSE x \in ids : Cardinality({y \in ids : y < x}) = i - 1]

\* .sort((a, b) => bTime - aTime): newest first, the order of the map among
\* notifications of one time.
NewestFirst(S, ids) ==
    [i \in 1..Cardinality(ids) |->
        CHOOSE x \in ids :
            Cardinality({y \in ids :
                            \/ S.notifications[y].createdAt > S.notifications[x].createdAt
                            \/ /\ S.notifications[y].createdAt = S.notifications[x].createdAt
                               /\ y < x}) = i - 1]

getTasksByStatus(S, workspaceId, status) ==
    {id \in getTasks(S, workspaceId) :
        Has(S.tasks[id], "status") /\ S.tasks[id].status = status}

getTasksByType(S, workspaceId, taskType) ==
    {id \in getTasks(S, workspaceId) :
        Has(S.tasks[id], "taskType") /\ S.tasks[id].taskType = taskType}

getRelatedTasks(S, parentTaskId) ==
    {id \in DOMAIN S.tasks :
        /\ Has(S.tasks[id], "parentTaskId")
        /\ S.tasks[id].parentTaskId = TokOf(parentTaskId)}

getTasksByEpicId(S, epicId) ==
    {id \in DOMAIN S.tasks :
        Has(S.tasks[id], "epicId") /\ S.tasks[id].epicId = TokOf(epicId)}

getNotifications(S, userId) ==
    {id \in DOMAIN S.notifications : S.notifications[id].userId = userId}

getUsers(S) == DOMAIN S.users

getWorkspaces(S) == DOMAIN S.workspaces

\* The array a list operation returns for the call.
ListResult(S, call) ==
    CASE call.op = "getTasks" ->
            [map |-> "tasks", list |-> ListOf(getTasks(S, call.workspaceId))]
      [] call.op = "getTasksByStatus" ->
            [map |-> "tasks",
             list |-> ListOf(getTasksByStatus(S, call.workspaceId, call.status))]
      [] call.op = "getTasksByType" ->
            [map |-> "tasks",
             list |-> ListOf(getTasksByType(S, call.workspaceId, call.taskType))]
      [] call.op = "getRelatedTasks" ->
            [map |-> "tasks", list |-> ListOf(getRelatedTasks(S, call.parentTaskId))]
      [] call.op = "getTasksByEpicId" ->
            [map |-> "tasks", list |-> ListOf(getTasksByEpicId(S, call.epicId))]
      [] call.op = "getSubtasks" ->
            [map |-> "subtasks", list |-> ListOf(getSubtasks(S, call.taskId))]
      [] call.op = "getComments" ->
            [map |-> "comments", list |-> ListOf(getComments(S, call.taskId))]
      [] call.op = "getNotifications" ->
            [map |-> "notifications",
             list |-> NewestFirst(S, getNotifications(S, call.userId))]
      [] call.op = "getUsers" -> [map |-> "users", list |-> ListOf(getUsers(S))]
      [] call.op = "getWorkspaces" ->
            [map |-> "workspaces", list |-> ListOf(getWorkspaces(S))]

\* A caller calls a list operation and keeps the array.
ListCall(call) ==
    /\ Quiet
    /\ held' = Some(Spread([call |-> call], ListResult(Store, call)))
    /\ SetStore(Store)
    /\ UNCHANGED <<clock, res, prev, served, req, slack, email, scheduler>>

\* The caller changes the array it holds: list.pop().
CallerPops ==
    /\ Quiet /\ served < MaxRequests
    /\ held # Undefined
    /\ Len(held[1].list) > 0
    /\ held' = Some([held[1] EXCEPT !.list = SubSeq(@, 1, Len(@) - 1)])
    /\ served' = served + 1
    /\ SetStore(Store)
    /\ UNCHANGED <<clock, res, prev, req, slack, email, scheduler>>

\* A text field of the entities of a map.
TextField(map) ==
    CASE map \in {"tasks", "subtasks", "notifications"} -> "title"
      [] map = "comments" -> "content"
      [] map = "users" -> "displayName"
      [] map = "workspaces" -> "name"

\* The caller changes an entry of the array it holds: list[i].title = value (the
\* text field of the entity).  No store operation has run since the call, so
\* the entry is the object the map of the store holds under its key.
CallerChangesEntry(i, value) ==
    /\ Quiet /\ served < MaxRequests
    /\ held # Undefined
    /\ i \in DOMAIN held[1].list
    /\ LET map == held[1].map
           id == held[1].list[i]
       IN  SetStore([Store EXCEPT ![map][id] = Spread(@, [f \in {TextField(map)} |-> value])])
    /\ served' = served + 1
    /\ UNCHANGED <<clock, res, prev, req, slack, email, scheduler, held>>

(***************************************************************************)
(* The requests served.                                                    *)
(***************************************************************************)
\* Task 1 has subtasks and comments, task 3 has subtasks, task 7 is the first
\* one a request creates, and no task is ever numbered 9999.
TaskIdInputs == {1, 3, 7, 9999}

PostTaskBodies ==
    { [title |-> "X", workspaceId |-> "1"],
      [title |-> "X", workspaceId |-> "1", status |-> "in_review", priority |-> "high",
       assigneeId |-> "2", dueDate |-> "2023-10-05", taskType |-> "sprint"],
      [title |-> "X", workspaceId |-> "2", dueDate |-> Null],
      [title |-> "X"],
      [workspaceId |-> "1"],
      [title |-> "", workspaceId |-> "1"],
      [title |-> "X", workspaceId |-> "one"],
      [title |-> "X", workspaceId |-> "1", dueDate |-> "soon"] }

PatchTaskBodies ==
    { [description |-> "new text"],
      [title |-> "x"],
      [priority |-> "high"],
      [status |-> "completed", completed |-> "true"],
      [assigneeId |-> "2"],
      [assigneeId |-> Null],
      [dueDate |-> Null],
      [taskType |-> "sprint"],
      [title |-> "x", id |-> "9"],
      [priority |-> Null],
      [dueDate |-> "2023-10-05"] }

StatusBodies ==
    {[status |-> s] : s \in TaskStatus \cup {"", "archived"}} \cup {[title |-> "x"]}

SubtaskBodies ==
    {[taskId |-> id, title |-> "step"] : id \in TaskIdInputs} \cup {[taskId |-> 1]}

CommentBodies ==
    {[taskId |-> id, userId |-> 2, content |-> "note"] : id \in TaskIdInputs}
        \cup {[taskId |-> 1, userId |-> 2]}

UserInputs == {[username |-> "newuser", password |-> "password", displayName |-> "New User"]}

WorkspaceIdInputs == {1, 2}

WorkspaceInputs == {[name |-> "W"], [name |-> "W", description |-> "second"]}

WorkspaceUpdates == {[name |-> "Renamed"], [description |-> Null], [name |-> "W"]}

SlackHistories ==
    { <<[ts |-> "ts1", text |-> "Deploy fix"]>>,
      <<[ts |-> "ts2", text |-> "Website redesign"]>>,
      <<[ts |-> "ts1", text |-> "Deploy fix"],
        [ts |-> "ts3", text |-> "Done", thread_ts |-> "ts1"]>>,
      <<[ts |-> "ts4", text |-> "joined", bot_id |-> "B1"], [ts |-> "ts5"]>> }

NotificationIdInputs == {1, 2}

UserIdInputs == {1, 2}

NotificationInputs ==
    {[userId |-> 2, title |-> "Reminder", message |-> "due tomorrow", type |-> "task_due",
      isRead |-> TRUE]}

SampleEpicsBodies == {<<>>, [workspaceId |-> "2"]}

\* Task 1 is no epic; task 8 is the second epic of a first POST /sample-epics.
EpicIdInputs == {1, 8}

Requests(F) ==
    \/ \E body \in PostTaskBodies, f \in F : PostTask(body, f)
    \/ \E id \in TaskIdInputs, body \in PatchTaskBodies, f \in F : PatchTask(id, body, f)
    \/ \E id \in TaskIdInputs, body \in StatusBodies, f \in F : PatchTaskStatus(id, body, f)
    \/ \E id \in TaskIdInputs : DeleteTaskRoute(id)
    \/ \E body \in SubtaskBodies : PostSubtask(body)
    \/ \E id \in DOMAIN SampleSubtasks : DeleteSubtaskRoute(id)
    \/ \E body \in CommentBodies : PostComment(body)
    \/ \E id \in DOMAIN SampleComments : DeleteCommentRoute(id)
    \/ \E u \in UserInputs : CreateUser(u)
    \/ \E w \in WorkspaceInputs : CreateWorkspace(w)
    \/ \E id \in WorkspaceIdInputs, w \in WorkspaceUpdates : UpdateWorkspace(id, w)
    \/ \E id \in WorkspaceIdInputs : DeleteWorkspace(id)
    \/ \E id \in NotificationIdInputs : MarkNotificationAsReadRoute(id)
    \/ \E userId \in UserIdInputs : MarkAllNotificationsRead(userId)
    \/ \E n \in NotificationInputs : CreateNotification(n)
    \/ \E body \in SampleEpicsBodies : PostSampleEpics(body)
    \/ \E epicId \in EpicIdInputs, f \in F : GenerateEpicDocumentation(epicId, f)
    \/ \E ok \in BOOLEAN : SlackConfigure(ok)
    \/ \E messages \in SlackHistories : SlackCheck(messages)
    \/ \E f \in F : SlackProcessMessage(f)
    \/ SlackCheckDone

\* The program on MemStorage: createNotification never throws.
Next == Requests({FALSE})

Spec == Init /\ [][Next]_vars

\* The program on an IStorage whose createNotification may throw.
NextFault == Requests(BOOLEAN)

SpecFault == Init /\ [][NextFault]_vars

\* The program once PATCH /tasks/1/status {status: "in_review"} has been
\* served on the sample data: the store holds one notification, unread.
InitRead ==
    LET body == [status |-> "in_review"]
        done == updateTaskStatus(SampleStore, 1, body.status)
        notification == [title |-> "Task Status Changed", taskId |-> 1, userId |-> 1,
                         type |-> "task_status_changed", isRead |-> FALSE,
                         createdAt |-> 0]
    IN  /\ StoreIs(createNotification(done.store, notification, 0).store)
        /\ slack = SlackServiceInit(FALSE)
        /\ clock = 1
        /\ res = [op |-> "PATCH /tasks/:id/status", id |-> 1, body |-> body, code |-> 200,
                  task |-> done.ret[1], notifyFails |-> FALSE]
        /\ prev = [op |-> "init"]
        /\ served = 0
        /\ req = Idle
        /\ email = EmailServiceInit(FALSE)
        /\ scheduler = SchedulerServiceInit
        /\ held = Undefined

SpecRead == InitRead /\ [][Next]_vars

\* The three task handlers, one await at a time.
NextSteps ==
    \/ \E body \in PostTaskBodies : TaskMutate("POST /tasks", 0, body)
    \/ \E id \in TaskIdInputs, body \in PatchTaskBodies : TaskMutate("PATCH /tasks/:id", id, body)
    \/ \E id \in TaskIdInputs, body \in StatusBodies :
          TaskMutate("PATCH /tasks/:id/status", id, body)
    \/ \E f \in BOOLEAN : TaskNotify(f)
    \/ TaskRespond

SpecSteps == Init /\ [][NextSteps]_vars

\* The program where the environment configures the email service, and the
\* requests, timer callbacks and fetches of the email path.
MailPlain ==
    [subject |-> "Fix login", messageId |-> "m1", text |-> <<"Please fix the login page">>,
     size |-> 25]

MailDeadline ==
    [subject |-> "Fix login", messageId |-> "m1",
     text |-> <<"Deadline: 2023-09-30", "Assignee: sarah chen">>, size |-> 41]

MailNoId ==
    [subject |-> "Urgent: server down", text |-> <<"Due: tomorrow">>, size |-> 13]

MailDigest ==
    [subject |-> "Newsletter", messageId |-> "m2", text |-> <<"Weekly digest of the team">>,
     size |-> 1200]

EmailFetches ==
    {<<>>, <<MailPlain>>, <<MailDeadline>>, <<MailDigest, MailNoId>>}

FetchOutcomes ==
    {[ok |-> TRUE, emails |-> e] : e \in EmailFetches}
        \cup {[ok |-> FALSE, critical |-> c] : c \in BOOLEAN}

\* Task 7 is the first task a mail creates.
EmailTaskIds == {7}

DueDateBodies == {[dueDate |-> "2023-10-05"]}

InitEmail ==
    /\ StoreIs(SampleStore)
    /\ slack = SlackServiceInit(FALSE)
    /\ clock = 0
    /\ res = [op |-> "init"]
    /\ prev = [op |-> "init"]
    /\ served = 0
    /\ req = Idle
    /\ email = EmailServiceInit(TRUE)
    /\ scheduler = SchedulerServiceInit
    /\ held = Undefined

NextEmail ==
    \/ \E ok \in BOOLEAN : EmailConfigure(ok)
    \/ EmailCheck
    \/ SchedulerStart
    \/ SchedulerStop
    \/ \E t \in scheduler.timers : TimerTick(t)
    \/ \E origin \in {"scheduler", "manual"}, outcome \in FetchOutcomes :
          EmailFetchSettles(origin, outcome)
    \/ EmailProcessMail
    \/ EmailRunDone
    \/ \E id \in EmailTaskIds, body \in DueDateBodies : PatchTask(id, body, FALSE)
    \/ \E id \in EmailTaskIds : DeleteTaskRoute(id)

SpecEmail == InitEmail /\ [][NextEmail]_vars

\* The state in which POST /email/scheduler/start has just been answered on
\* the configured service: the timer is installed and the immediate run awaits
\* its fetch.
InitTimer ==
    /\ StoreIs(SampleStore)
    /\ slack = SlackServiceInit(FALSE)
    /\ clock = 1
    /\ res = [op |-> "POST /email/scheduler/start", code |-> 200, called |-> TRUE,
              had |-> FALSE]
    /\ prev = [op |-> "init"]
    /\ served = 0
    /\ req = Idle
    /\ email = startEmailChecker(SchedulerServiceInit, EmailServiceInit(TRUE)).email
    /\ scheduler = startEmailChecker(SchedulerServiceInit, EmailServiceInit(TRUE)).scheduler
    /\ held = Undefined

\* The fetches of the runs of the scheduler find no unread mail or one mail, or
\* fail.
TimerOutcomes ==
    {[ok |-> TRUE, emails |-> e] : e \in {<<>>, <<MailPlain>>}}
        \cup {[ok |-> FALSE, critical |-> c] : c \in BOOLEAN}

\* A run of the scheduler moves on: its fetch settles, or the loop that is
\* running takes a turn or ends.
SchedulerRunProgress ==
    \/ \E outcome \in TimerOutcomes : EmailFetchSettles("scheduler", outcome)
    \/ EmailProcessMail
    \/ EmailRunDone

\* The scheduler and its routes, from a started scheduler on.
NextTimer ==
    \/ \E ok \in BOOLEAN : EmailConfigure(ok)
    \/ SchedulerStart
    \/ SchedulerStop
    \/ \E t \in scheduler.timers : TimerTick(t)
    \/ \E outcome \in TimerOutcomes : EmailFetchSettles("scheduler", outcome)
    \/ EmailProcessMail
    \/ EmailRunDone

SpecTimer == InitTimer /\ [][NextTimer]_vars

\* The fetch of a run settles in the end (the IMAP client answers, fails or
\* times out) and the loop over the mails runs on.
SpecTimerLive == SpecTimer /\ WF_vars(SchedulerRunProgress)

\* What a fetch of the channel history gives.
SlackFetchOutcomes ==
    {[ok |-> TRUE, messages |-> h] : h \in SlackHistories} \cup {[ok |-> FALSE]}

\* Task 7 is the first task a Slack message creates.
SlackTaskIds == {7}

\* The service configured from the environment at its construction.
InitSlack ==
    /\ StoreIs(SampleStore)
    /\ slack = SlackServiceInit(TRUE)
    /\ clock = 0
    /\ res = [op |-> "init"]
    /\ prev = [op |-> "init"]
    /\ served = 0
    /\ req = Idle
    /\ email = EmailServiceInit(FALSE)
    /\ scheduler = SchedulerServiceInit
    /\ held = Undefined

\* The Slack routes, with checks that overlap, and the deletion of a task.
NextSlack ==
    \/ \E ok \in BOOLEAN : SlackConfigure(ok)
    \/ SlackCheckFetch
    \/ \E outcome \in SlackFetchOutcomes : SlackFetchReturns(outcome)
    \/ SlackProcessMessage(FALSE)
    \/ SlackCheckDone
    \/ \E id \in SlackTaskIds : DeleteTaskRoute(id)

SpecSlack == InitSlack /\ [][NextSlack]_vars

\* The list operations on the store of the sample data with one notification,
\* and a caller that changes what they returned.
ListCalls ==
    {[op |-> "getTasks", workspaceId |-> 1],
     [op |-> "getTasksByStatus", workspaceId |-> 1, status |-> "todo"],
     [op |-> "getTasksByType", workspaceId |-> 1, taskType |-> "adhoc"],
     [op |-> "getRelatedTasks", parentTaskId |-> 1],
     [op |-> "getTasksByEpicId", epicId |-> 1],
     [op |-> "getSubtasks", taskId |-> 3],
     [op |-> "getComments", taskId |-> 1],
     [op |-> "getNotifications", userId |-> 1],
     [op |-> "getUsers"],
     [op |-> "getWorkspaces"]}

EntryIndexes == {1, 2}

CallerTexts == {"changed by the caller"}

InitCopy ==
    /\ StoreIs(createNotification(SampleStore,
                                  [title |-> "Reminder", userId |-> 1, type |-> "task_due"],
                                  0).store)
    /\ slack = SlackServiceInit(FALSE)
    /\ clock = 1
    /\ res = [op |-> "init"]
    /\ prev = [op |-> "init"]
    /\ served = 0
    /\ req = Idle
    /\ email = EmailServiceInit(FALSE)
    /\ scheduler = SchedulerServiceInit
    /\ held = Undefined

NextCopy ==
    \/ \E call \in ListCalls : ListCall(call)
    \/ CallerPops
    \/ \E i \in EntryIndexes, value \in CallerTexts : CallerChangesEntry(i, value)

SpecCopy == InitCopy /\ [][NextCopy]_vars

(***************************************************************************)
(* Properties.                                                             *)
(***************************************************************************)
Range(f) == {f[x] : x \in DOMAIN f}

\* The step serves a request of route op.
Serves(op) == served' = served + 1 /\ res'.op = op

\* C1 (cascade completeness): after DELETE /tasks/:id has run deleteTask(T), no
\* subtask and no comment has taskId = T and getTask(T) is absent, while every
\* subtask and comment of another task is still stored, unchanged.
C1_CascadeComplete ==
    [][Serves("DELETE /tasks/:id") =>
        LET T == res'.id
        IN  /\ \A x \in DOMAIN subtasks' : subtasks'[x].taskId # T
            /\ \A x \in DOMAIN comments' : comments'[x].taskId # T
            /\ getTask(Store', T) = Undefined
            /\ \A x \in DOMAIN subtasks :
                  subtasks[x].taskId # T =>
                      x \in DOMAIN subtasks' /\ subtasks'[x] = subtasks[x]
            /\ \A x \in DOMAIN comments :
                  comments[x].taskId # T =>
                      x \in DOMAIN comments' /\ comments'[x] = comments[x]]_vars

\* Task 1, which had four subtasks and two comments, has been deleted; the two
\* subtasks of task 3 remain.
C1_Witness ==
    /\ res.op = "DELETE /tasks/:id" /\ res.id = 1 /\ res.success
    /\ served = 1
    /\ DOMAIN subtasks = {5, 6}
    /\ DOMAIN comments = {}

\* C2 (identifier uniqueness): for every entity type the identifiers handed out,
\* the sample data's first, are strictly increasing in the order they were
\* handed out (so pairwise distinct, and none is handed out again after its
\* entity is deleted), and every stored entity carries an identifier handed out.
C2_IdentifiersIncrease ==
    \A type \in EntityTypes :
        /\ \A i, j \in DOMAIN issued[type] : i < j => issued[type][i] < issued[type][j]
        /\ DOMAIN (CASE type = "user" -> users [] type = "workspace" -> workspaces
                     [] type = "task" -> tasks [] type = "subtask" -> subtasks
                     [] type = "comment" -> comments [] OTHER -> notifications)
              \subseteq Range(issued[type])

\* A task was deleted and a task was created after it: seven identifiers have
\* been handed out and six tasks are stored, the one created last among them.
C2_Witness ==
    /\ res.op = "POST /tasks" /\ res.code = 201
    /\ prev.op = "DELETE /tasks/:id" /\ prev.success
    /\ Len(issued.task) = Cardinality(DOMAIN tasks) + 1
    /\ res.task.id \in DOMAIN tasks

\* C3 (default-filling): the task stored by POST /tasks for a body of title and
\* workspaceId alone has status "todo", priority "medium", completed false,
\* position 0 and taskType "adhoc".
C3_DefaultsFilled ==
    (res.op = "POST /tasks" /\ res.code = 201 /\ DOMAIN res.body = {"title", "workspaceId"})
        => LET stored == tasks[res.task.id]
           IN  \A f \in DOMAIN ColumnDefault : Has(stored, f) /\ stored[f] = ColumnDefault[f]

\* The notifications a step adds.
NewNotifications == DOMAIN notifications' \ DOMAIN notifications

\* C4 (notification triggering condition): a successful PATCH /tasks/:id adds
\* exactly one notification, of type task_updated, when its body has one of
\* status, priority, assigneeId, dueDate, taskType, whatever the value, and adds
\* none otherwise.
C4_NotifiesIffSignificantTouched ==
    [][(Serves("PATCH /tasks/:id") /\ res'.code = 200) =>
        IF DOMAIN res'.body \cap SignificantFields # {}
        THEN /\ Cardinality(NewNotifications) = 1
             /\ \A n \in NewNotifications : notifications'[n].type = "task_updated"
        ELSE NewNotifications = {}]_vars

\* C5 (status update round-trip): PATCH /tasks/:id/status with a status in its
\* body, on an existing task, answers the task with that status, stores it, and
\* adds exactly one notification, of type task_status_changed and with the
\* task's id; on a task that does not exist it adds no notification.
C5_StatusRoundTrip ==
    [][(Serves("PATCH /tasks/:id/status") /\ Has(res'.body, "status")
            /\ Truthy(res'.body.status)) =>
        IF res'.id \in DOMAIN tasks
        THEN /\ res'.code = 200
             /\ res'.task.status = res'.body.status
             /\ res'.task.id = res'.id
             /\ tasks'[res'.id] = res'.task
             /\ Cardinality(NewNotifications) = 1
             /\ \A n \in NewNotifications :
                   /\ notifications'[n].type = "task_status_changed"
                   /\ notifications'[n].taskId = res'.id
        ELSE /\ res'.code = 404
             /\ notifications' = notifications]_vars

\* Task 1 went from in_progress to in_review through the status route, and the
\* one notification stored is about it.
C5_Witness ==
    /\ res.op = "PATCH /tasks/:id/status" /\ res.id = 1 /\ res.code = 200
    /\ tasks[1].status = "in_review"
    /\ DOMAIN notifications = {1}
    /\ notifications[1].type = "task_status_changed"

\* C6 (not-found semantics): updateTask and updateTaskStatus on an id that names
\* no task return absent (the route answers 404, not 500) and leave the task map
\* as it was; deleteTask returns true exactly when the task existed.
C6_NotFound ==
    [][/\ (/\ Serves("PATCH /tasks/:id") \/ Serves("PATCH /tasks/:id/status")
           /\ res'.code # 400
           /\ res'.id \notin DOMAIN tasks)
          => (res'.code = 404 /\ tasks' = tasks)
       /\ Serves("DELETE /tasks/:id")
          => /\ res'.success = (res'.id \in DOMAIN tasks)
             /\ res'.id \notin DOMAIN tasks']_vars

\* An update of task 9999 was answered 404 and then its deletion reported false.
C6_Witness ==
    /\ prev.op = "PATCH /tasks/:id" /\ prev.id = 9999 /\ prev.code = 404
    /\ res.op = "DELETE /tasks/:id" /\ res.id = 9999 /\ ~res.success
    /\ tasks = SampleTasks

\* The request served is the one served before it, and both succeeded.
SameAgain ==
    /\ served' = served + 1
    /\ res'.op \in {"PATCH /tasks/:id", "PATCH /tasks/:id/status"}
    /\ res.op = res'.op
    /\ res.code = 200 /\ res'.code = 200
    /\ res.id = res'.id
    /\ res.body = res'.body

\* C7 (partial-update idempotence): a second updateTask(id, p), or a second
\* updateTaskStatus(id, s), right after the first leaves every task as the
\* first left it and returns the same task.
C7_UpdateIdempotent ==
    [][SameAgain => (tasks' = tasks /\ res'.task = res.task)]_vars

\* The same priority update of task 1 has been served twice.
C7_Witness ==
    /\ res.op = "PATCH /tasks/:id" /\ res.code = 200
    /\ prev = res
    /\ res.id = 1 /\ res.body = [priority |-> "high"]

\* C8 (partial merge frame): updateTask(id, partial) sets the fields of partial
\* and leaves every other field of the task, its id, every other task and every
\* other stored entity as they were; so does updateWorkspace for workspaces.
C8_MergeFrame ==
    [][/\ (Serves("PATCH /tasks/:id") /\ res'.code = 200) =>
            LET id == res'.id
                partial == DOMAIN res'.body \cap InsertTaskFields
            IN  /\ DOMAIN tasks' = DOMAIN tasks
                /\ \A other \in DOMAIN tasks \ {id} : tasks'[other] = tasks[other]
                /\ DOMAIN tasks'[id] = DOMAIN tasks[id] \cup partial
                /\ \A f \in DOMAIN tasks[id] \ partial : tasks'[id][f] = tasks[id][f]
                /\ \A f \in partial : tasks'[id][f] = res'.body[f]
                /\ tasks'[id].id = id
                /\ UNCHANGED <<users, workspaces, subtasks, comments>>
                /\ \A n \in DOMAIN notifications :
                      n \in DOMAIN notifications' /\ notifications'[n] = notifications[n]
       /\ (Serves("updateWorkspace") /\ res'.ret # Undefined) =>
            LET id == res'.id
                partial == DOMAIN res'.data
            IN  /\ DOMAIN workspaces' = DOMAIN workspaces
                /\ \A other \in DOMAIN workspaces \ {id} : workspaces'[other] = workspaces[other]
                /\ DOMAIN workspaces'[id] = DOMAIN workspaces[id] \cup partial
                /\ \A f \in DOMAIN workspaces[id] \ partial :
                      workspaces'[id][f] = workspaces[id][f]
                /\ \A f \in partial : workspaces'[id][f] = res'.data[f]
                /\ workspaces'[id].id = id
                /\ UNCHANGED <<users, tasks, subtasks, comments, notifications>>]_vars

\* Workspace 1 was renamed and then task 1 retitled; task 1 kept its status.
C8_Witness ==
    /\ prev.op = "updateWorkspace" /\ prev.ret # Undefined /\ prev.data = [name |-> "Renamed"]
    /\ res.op = "PATCH /tasks/:id" /\ res.code = 200 /\ res.id = 1
    /\ res.body = [title |-> "x"]
    /\ tasks[1].title = "x" /\ tasks[1].status = "in_progress"
    /\ workspaces[1].description = "Primary project workspace"

\* C9 (best-effort notifications): where createNotification throws after a task
\* was written (by POST /tasks, PATCH /tasks/:id, PATCH /tasks/:id/status or the
\* Slack ingestion), the request still answers success and the task is stored.
C9_NotificationFailureSwallowed ==
    /\ (/\ res.op \in {"POST /tasks", "PATCH /tasks/:id", "PATCH /tasks/:id/status"}
        /\ Has(res, "notifyFails") /\ res.notifyFails)
       => (res.code \in {200, 201} /\ getTask(Store, res.task.id) = Some(res.task))
    /\ (res.op = "POST /slack/check" /\ Has(res, "notifyFailed") /\ res.notifyFailed)
       => (res.code = 200 /\ res.wrote \subseteq DOMAIN tasks)

\* C10 (validation fail-fast): POST /tasks without title or without workspaceId
\* and PATCH /tasks/:id with a null priority are answered 400, and a request
\* answered 400 leaves every map and every counter of the store as it was.
C10_ValidationFailFast ==
    [][/\ (/\ Serves("POST /tasks")
           /\ ~Has(res'.body, "title") \/ ~Has(res'.body, "workspaceId"))
          => res'.code = 400
       /\ (/\ Serves("PATCH /tasks/:id")
           /\ Has(res'.body, "priority") /\ res'.body.priority = Null)
          => res'.code = 400
       /\ (/\ Serves("POST /tasks") \/ Serves("PATCH /tasks/:id")
           /\ res'.code = 400)
          => UNCHANGED <<users, workspaces, tasks, subtasks, comments, notifications,
                         nextId, issued>>]_vars

\* A POST /tasks without title was answered 400 on the store of the sample data.
C10_Witness ==
    /\ res.op = "POST /tasks" /\ res.code = 400 /\ ~Has(res.body, "title")
    /\ tasks = SampleTasks /\ notifications = <<>>
    /\ nextId.task = Cardinality(DOMAIN SampleTasks) + 1

\* The tasks a step adds to the store.
NewTasks == DOMAIN tasks' \ DOMAIN tasks

\* C11 (workspace reference at creation): every task a step creates has a
\* workspaceId, and it names a workspace that is in the store when the task is
\* created.
C11_WorkspaceExistsAtCreation ==
    [][\A id \in NewTasks :
          /\ Has(tasks'[id], "workspaceId")
          /\ JsType(tasks'[id].workspaceId) = "number"
          /\ NumOf(tasks'[id].workspaceId) \in DOMAIN workspaces]_vars

\* C12 (referential integrity of dependents): in every reachable state the
\* taskId of every subtask and of every comment names a task that is in the
\* store.
C12_DependentsNameTasks ==
    /\ \A x \in DOMAIN subtasks : subtasks[x].taskId \in DOMAIN tasks
    /\ \A x \in DOMAIN comments : comments[x].taskId \in DOMAIN tasks

\* C13 (status update frame): updateTaskStatus(id, s), run by a successful
\* PATCH /tasks/:id/status, sets the status of the task and leaves its completed
\* flag, every other field of it and every other task as they were.
C13_StatusOnly ==
    [][(Serves("PATCH /tasks/:id/status") /\ res'.code = 200) =>
        LET id == res'.id
        IN  /\ DOMAIN tasks' = DOMAIN tasks
            /\ \A other \in DOMAIN tasks \ {id} : tasks'[other] = tasks[other]
            /\ DOMAIN tasks'[id] = DOMAIN tasks[id] \cup {"status"}
            /\ \A f \in DOMAIN tasks[id] \ {"status"} : tasks'[id][f] = tasks[id][f]
            /\ tasks'[id].status = res'.body.status]_vars

\* Task 1 was given the status completed and its completed flag is still false.
C13_Witness ==
    /\ res.op = "PATCH /tasks/:id/status" /\ res.code = 200 /\ res.id = 1
    /\ tasks[1].status = "completed"
    /\ tasks[1].completed = "false"

\* C14 (status domain): in every reachable state the status a stored task
\* carries is one of todo, in_progress, in_review, completed.
C14_StatusInDomain ==
    \A id \in DOMAIN tasks : Has(tasks[id], "status") => tasks[id].status \in TaskStatus

\* C15 (unguarded status transitions): for a stored task of status s and a
\* requested status t, s and t any two of the four statuses, one status update
\* is accepted and leaves the task with status t.
C15_AnyTransition ==
    [][\A s \in TaskStatus, t \in TaskStatus :
          (/\ Serves("PATCH /tasks/:id/status")
           /\ res'.id \in DOMAIN tasks
           /\ Has(tasks[res'.id], "status") /\ tasks[res'.id].status = s
           /\ Has(res'.body, "status") /\ res'.body.status = t)
          => (res'.code = 200 /\ tasks'[res'.id].status = t)]_vars

\* Task 3, completed in the sample data, went to in_review and then to todo.
C15_Witness ==
    /\ prev.op = "PATCH /tasks/:id/status" /\ prev.id = 3 /\ prev.code = 200
    /\ prev.body.status = "in_review"
    /\ res.op = "PATCH /tasks/:id/status" /\ res.id = 3 /\ res.code = 200
    /\ tasks[3].status = "todo"

\* C16 (notifications outlive their task): deleteTask(id), run by DELETE
\* /tasks/:id, leaves the notifications as they were; those whose taskId is id
\* are still stored, with the same fields.
C16_NotificationsKept ==
    [][Serves("DELETE /tasks/:id") =>
        /\ notifications' = notifications
        /\ \A n \in DOMAIN notifications :
              (Has(notifications[n], "taskId") /\ notifications[n].taskId = res'.id)
                  => (n \in DOMAIN notifications' /\ notifications'[n] = notifications[n])]_vars

\* Task 1 was deleted and the notification about it is still stored.
C16_Witness ==
    /\ res.op = "DELETE /tasks/:id" /\ res.id = 1 /\ res.success
    /\ 1 \notin DOMAIN tasks
    /\ \E n \in DOMAIN notifications : notifications[n].taskId = 1

MarksRead ==
    Serves("PATCH /notifications/:id/read")
        \/ Serves("PATCH /notifications/mark-all-read/:userId")

\* C17 (read flag): a notification is stored unread whatever isRead its input
\* carries; a stored notification becomes read only in a step of
\* markNotificationAsRead (PATCH /notifications/:id/read or mark-all-read), once
\* read it stays read, and no step changes any other field of it.
C17_ReadFlag ==
    [][/\ \A n \in NewNotifications : notifications'[n].isRead = FALSE
       /\ \A n \in DOMAIN notifications \cap DOMAIN notifications' :
             /\ notifications[n].isRead => notifications'[n].isRead
             /\ (~notifications[n].isRead /\ notifications'[n].isRead) => MarksRead
             /\ DOMAIN notifications'[n] = DOMAIN notifications[n]
             /\ \A f \in DOMAIN notifications[n] \ {"isRead"} :
                   notifications'[n][f] = notifications[n][f]]_vars

\* Notification 1 was marked read; then a notification whose input said read
\* was stored, unread, and notification 1 is still read.
C17_Witness ==
    /\ prev.op = "PATCH /notifications/:id/read" /\ prev.id = 1 /\ prev.code = 200
    /\ res.op = "createNotification" /\ res.data.isRead
    /\ ~notifications[res.notification.id].isRead
    /\ notifications[1].isRead
    /\ notifications[1].type = "task_status_changed"

\* The types of the notifications the task mutation sites write.
MutationSiteTypes ==
    {"task_created", "task_updated", "task_status_changed", "epic_documentation",
     "task_created_slack", "task_duplicate"}

\* C18 (fixed recipient): every notification a task mutation site wrote has
\* userId 1, whoever the task is assigned to, and user 1 is in the store with
\* role admin in every reachable state.
C18_FixedRecipient ==
    /\ \A n \in DOMAIN notifications :
          notifications[n].type \in MutationSiteTypes => notifications[n].userId = 1
    /\ 1 \in DOMAIN users
    /\ users[1].role = "admin"

\* Documentation was generated for the epic 8, assigned to user 2, and the
\* notification about it is for user 1.
C18_Witness ==
    /\ prev.op = "POST /sample-epics"
    /\ res.op = "POST /epics/:epicId/generate-documentation" /\ res.code = 200
    /\ tasks[res.epicId].assigneeId = "2"
    /\ \E n \in DOMAIN notifications :
          /\ notifications[n].type = "epic_documentation"
          /\ notifications[n].taskId = res.epicId
          /\ notifications[n].userId = 1

\* C19 (request ordering): within a request that creates a task, updates one or
\* changes its status, a step that writes the notification finds the task
\* mutation in the store, and the step that sends the success response finds
\* the task mutation in the store and the notification write attempted
\* wherever the request has one.
C19_MutateNotifyRespond ==
    [][/\ NewNotifications # {} =>
            /\ req.stage = "mutated"
            /\ getTask(Store, req.task.id) = Some(req.task)
            /\ \A n \in NewNotifications : notifications'[n].taskId = req.task.id
       /\ (served' = served + 1 /\ res'.op \in TaskOps /\ res'.code \in {200, 201}) =>
            /\ req.notify => req.stage = "notified"
            /\ getTask(Store, res'.task.id) = Some(res'.task)
            /\ req' = Idle]_vars

\* POST /tasks has answered 201: the task is stored, the notification about it
\* is stored and no request is in flight.
C19_Witness ==
    /\ res.op = "POST /tasks" /\ res.code = 201
    /\ req = Idle
    /\ getTask(Store, res.task.id) = Some(res.task)
    /\ \E n \in DOMAIN notifications :
          notifications[n].taskId = res.task.id /\ notifications[n].type = "task_created"

\* The subtasks and the comments of task T in a store.
Dependents(S, T) == [subtasks |-> getSubtasks(S, T), comments |-> getComments(S, T)]

\* C20 (atomic cascade): no state between two steps shows a part of
\* deleteTask(T).  A step that removes task T leaves no dependent of T; a step
\* that removes dependents of a task T and leaves T in the store removes one
\* dependent only, the one a DELETE /subtasks/:id or DELETE /comments/:id names.
C20_AtomicCascade ==
    [][LET goneTasks == DOMAIN tasks \ DOMAIN tasks'
           goneSubtasks == DOMAIN subtasks \ DOMAIN subtasks'
           goneComments == DOMAIN comments \ DOMAIN comments'
           owners == {subtasks[x].taskId : x \in goneSubtasks}
                        \cup {comments[x].taskId : x \in goneComments}
       IN  /\ \A T \in goneTasks :
                 /\ \A x \in DOMAIN subtasks' : subtasks'[x].taskId # T
                 /\ \A x \in DOMAIN comments' : comments'[x].taskId # T
           /\ \A T \in owners \cap DOMAIN tasks' :
                 /\ Cardinality(goneSubtasks) + Cardinality(goneComments) = 1
                 /\ Serves("DELETE /subtasks/:id") \/ Serves("DELETE /comments/:id")]_vars

\* Task 1 and its four subtasks and two comments went in one step, right after
\* a request that removed one subtask of task 3 and left task 3.
C20_Witness ==
    /\ prev.op = "DELETE /subtasks/:id" /\ prev.success
    /\ res.op = "DELETE /tasks/:id" /\ res.id = 1 /\ res.success
    /\ 1 \notin DOMAIN tasks /\ 3 \in DOMAIN tasks
    /\ Dependents(Store, 1) = [subtasks |-> {}, comments |-> {}]
    /\ Cardinality(getSubtasks(Store, 3)) = 1

\* C30 (failed delete changes nothing): a DELETE /tasks/:id whose deleteTask(id)
\* returned false, no task having that identifier, leaves every map and every
\* counter of the store as it was, the subtasks and the comments included.
C30_FailedDeleteChangesNothing ==
    [][(Serves("DELETE /tasks/:id") /\ ~res'.success) =>
        UNCHANGED <<users, workspaces, tasks, subtasks, comments, notifications,
                    nextId, issued>>]_vars

\* The users of role admin.
Admins == {u \in DOMAIN users : Has(users[u], "role") /\ users[u].role = "admin"}

\* The type of the notification an external-source adapter owes for a task.
ExternalSourceType(task) ==
    IF Has(task, "source") /\ task.source = TaskSourceSlack
    THEN IF task.description = "Duplicate of existing task"
         THEN "task_duplicate" ELSE "task_created_slack"
    ELSE "task_created"

\* C21 (external-source notifications): a turn of the loop of the email adapter
\* or of the Slack adapter that creates a task adds, for every admin user, one
\* notification about that task: of type task_created for a mail, of type
\* task_created_slack for a Slack message and of type task_duplicate for a
\* Slack message that duplicates an existing task.
C21_ExternalSourceNotifies ==
    [][(slack.run.active \/ email.loop.active) =>
        \A id \in NewTasks : \A u \in Admins :
            Cardinality({n \in NewNotifications :
                            /\ notifications'[n].taskId = id
                            /\ notifications'[n].userId = u
                            /\ notifications'[n].type = ExternalSourceType(tasks'[id])}) = 1]_vars

\* The step is a turn of the loop of the email adapter that handled a mail.
MailTurn ==
    /\ email.loop.active /\ email'.loop.active
    /\ Len(email'.loop.results) = Len(email.loop.results) + 1

\* What that turn noted about its mail.
LastNote == email'.loop.results[Len(email'.loop.results)]

\* C22 (no stale write-back): a mail without deadline whose messageId names a
\* task the email adapter created leaves the dueDate of that task as the store
\* holds it, whatever copy of the task the adapter kept.
C22_NoStaleWriteBack ==
    [][MailTurn =>
        ((LastNote.cached # Undefined /\ LastNote.before # Undefined
             /\ ~LastNote.hasDeadline)
          => tasks'[LastNote.cached[1].id].dueDate = LastNote.before[1].dueDate)]_vars

\* C23 (defensive copies): a call of a list operation of the store changes no
\* store state, and a caller that changes the array the call returned, or an
\* entry of it, changes no store state either, so that later reads of the store
\* return what they returned before.
C23_DefensiveCopies ==
    [][held' # held \/ served' # served =>
        UNCHANGED <<users, workspaces, tasks, subtasks, comments, notifications,
                    nextId, issued>>]_vars


\* C24 (scheduler runs do not overlap): at any moment at most one run of
\* EmailService.processEmails started by the scheduler is in progress, and
\* while the scheduler is running no step (a tick of the timer, the immediate
\* run of startEmailChecker) starts another one.
C24_SchedulerRunsDoNotOverlap ==
    [][/\ email'.runs.scheduler <= 1
       /\ scheduler.isRunning => email'.runs.scheduler <= email.runs.scheduler]_vars

\* A tick of the timer was skipped while a run of the scheduler is in progress.
C24_Witness ==
    /\ scheduler.last = "skipped"
    /\ scheduler.isRunning
    /\ scheduler.ticks > 0
    /\ email.runs.scheduler = 1

\* C25 (one run on the shared EmailService): at any moment at most one call
\* of EmailService.processEmails is in flight, those made by POST /email/check
\* and those made by the scheduler counted together.
C25_OneRunInFlight == email.runs.scheduler + email.runs.manual <= 1


\* C26 (single timer): at most one polling timer is active, and it is the one
\* emailCheckInterval names; a call of startEmailChecker while a timer is
\* active changes nothing of the scheduler and starts no run; after
\* stopEmailChecker no timer is active and isSchedulerRunning() is false; a
\* call of startEmailChecker with no timer active installs one.
C26_SingleTimer ==
    [][/\ Cardinality(scheduler'.timers) <= 1
       /\ scheduler'.timers =
              (IF isSchedulerRunning(scheduler') THEN {scheduler'.emailCheckInterval} ELSE {})
       /\ (Serves("POST /email/scheduler/start") /\ res'.called /\ res'.had) =>
              (scheduler' = scheduler /\ email'.runs = email.runs)
       /\ Serves("POST /email/scheduler/stop") =>
              (scheduler'.timers = {} /\ ~isSchedulerRunning(scheduler'))
       /\ (Serves("POST /email/scheduler/start") /\ res'.called /\ ~res'.had) =>
              (Cardinality(scheduler'.timers) = 1 /\ isSchedulerRunning(scheduler'))]_vars

\* startEmailChecker, then stopEmailChecker, which removed the timer, then
\* startEmailChecker again, which installed the second timer, the only one
\* active.
C26_Witness ==
    /\ prev.op = "POST /email/scheduler/stop" /\ prev.had
    /\ res.op = "POST /email/scheduler/start" /\ res.called /\ ~res.had
    /\ scheduler.emailCheckInterval = 2
    /\ scheduler.timers = {2}


C29_EmailUpdateInPlace ==
    [][(MailTurn /\ LastNote.cached # Undefined) =>
          /\ ~LastNote.isNew
          /\ NewTasks = {}
          /\ IF LastNote.before # Undefined
             THEN /\ LastNote.task # Undefined
                  /\ LastNote.task[1].id = LastNote.cached[1].id
                  /\ LastNote.task = getTask(Store', LastNote.cached[1].id)
                  /\ DOMAIN tasks' = DOMAIN tasks
             ELSE /\ LastNote.task = Undefined
                  /\ UNCHANGED <<users, workspaces, tasks, subtasks, comments,
                                 notifications, nextId>>]_vars

\* The mail m1 has come again after its task was deleted: no task is returned.
C29_Witness ==
    /\ email.loop.active
    /\ Len(email.loop.results) > 0
    /\ LET note == email.loop.results[Len(email.loop.results)]
       IN  /\ note.cached # Undefined
           /\ note.before = Undefined
           /\ note.task = Undefined


\* C28 (Slack de-duplication): whatever checks have run, one after the other
\* or with their fetches overlapping, no two tasks of the store have the same
\* slackMessageId.
C28_SlackDedup ==
    \A a \in DOMAIN tasks, b \in DOMAIN tasks :
        (/\ Has(tasks[a], "slackMessageId") /\ Has(tasks[b], "slackMessageId")
         /\ Truthy(tasks[a].slackMessageId)
         /\ tasks[a].slackMessageId = tasks[b].slackMessageId) => a = b

\* Two checks whose fetches overlapped have both run over a history that
\* starts with ts1: the first stored its task, the second stored none.
C28_Witness ==
    /\ slack.overlapped
    /\ res.op = "POST /slack/check" /\ res.code = 200
    /\ prev.op = "POST /slack/check" /\ prev.code = 200
    /\ res.messages[1].ts = "ts1" /\ prev.messages[1].ts = "ts1"
    /\ prev.wrote # {}
    /\ res.wrote = {}
    /\ Cardinality({id \in DOMAIN tasks : Has(tasks[id], "slackMessageId")
                                          /\ tasks[id].slackMessageId = "ts1"}) = 1

=============================================================================
